---- MODULE Spec2Model ----
(***************************************************************************)
(* A model of the code-interpreter service: the file-metadata index        *)
(* (utils/file_meta.py), the HTTP ingress (services/http_server.py) and    *)
(* the executor pod pool (services/kubernetes_code_executor.py).           *)
(*                                                                         *)
(* The service runs on one asyncio event loop: a handler runs without      *)
(* interruption between two awaits.  Every action below is one such        *)
(* uninterrupted stretch of code; concurrent requests are the              *)
(* interleavings of these actions.                                         *)
(***************************************************************************)
EXTENDS Integers, Sequences, FiniteSets, TLC

(***************************************************************************)
(* Bounds of the model.                                                    *)
(***************************************************************************)
\* the clock runs from 0 to MaxTime ticks
MaxTime == 3
\* the calls of cleanup_expired_files the reaper's counter tells apart
MaxCycles == 2
\* clock ticks in one day
TicksPerDay == 2
\* largest max_downloads a client sends
MaxLimit == 2
\* largest expires_days a client sends
MaxDays == 1
\* download requests served per key after its registration
MaxDownloads == 3
\* largest global_max_downloads a deployment configures
MaxGlobal == 1
\* largest executor_pod_queue_target_length a deployment configures
MaxTarget == 2
\* pods the cluster creates in one run
MaxPods == 4
\* largest body of an upload and largest file a snippet writes, in bytes
MaxBytes == 4
\* bytes one read of a copy loop returns: the 8192 of the code, scaled to
\* bodies of MaxBytes bytes
ChunkSize == 2
\* the upload handler's size test: the 1_073_741_824 of the code, scaled to
\* bodies of MaxBytes bytes
UploadCap == 3

(***************************************************************************)
(* Python's Optional: None is the empty set, a value v is {v}.             *)
(***************************************************************************)
None == {}
Some(v) == {v}
The(o) == CHOOSE v \in o : TRUE
Min(a, b) == IF a <= b THEN a ELSE b

Chats == {"chat1", "chat2"}
\* the chats that store files; the other chat only asks for them
Owners == {"chat1"}
Filenames == {"a.txt"}
\* the handles secrets.token_hex(32) can return
Hashes == {"h1"}
\* a filename no file is stored under; requests may still name it
OtherNames == {"b.txt"}
\* the primary key of the files table
Keys == (Chats \X Hashes \X Filenames) \cup (Owners \X Hashes \X OtherNames)
\* the handles and keys of the runs that store two files
StoreHashes == {"h1", "h2"}
StoreKeys == Owners \X StoreHashes \X (Filenames \cup OtherNames)
\* the values of a byte, and the contents of a file
Bytes == {0, 1}
Contents == UNION {[1..n -> Bytes] : n \in 0..MaxBytes}
\* the one content of the runs that do not look at contents
OneContent == {<<1>>}

VARIABLES
    config,     \* Config(): the settings the handlers read
    files,      \* the files table: key -> [remaining, expires_at]
    blobs,      \* the store: key -> the bytes of <root>/<chat_id>/<hash>/<filename>
    allocated,  \* the handles secrets.token_hex has handed out
    pending,    \* the execute request past POST /execute: its harvest
    now,        \* datetime.now()
    reg,        \* history: how each key was last registered
    hist,       \* history: downloads of each key since its last registration
    resp,       \* the response of the last request served
    executor_pod_queue,                 \* the deque of Ready pods
    executor_pod_queue_spawning_count,  \* the counter of spawns in flight
    executor_pod_queue_target_length,   \* the configured depth of the queue
    fill_tasks,   \* fill_executor_pod_queue tasks created and not yet started
    spawn_tasks,  \* spawn_executor_pod tasks a fill loop is waiting for
    pods,         \* the pods the cluster has created: 1..pods
    deleted,      \* the pods a kubectl.delete task was created for
    calls,        \* the execute requests: where each one is
    leases,       \* history: how often each pod was handed to a request
    payload,      \* the JSON value the execute handler is normalising
    passes,  \* how often canonicalise was applied to it
    spawns,     \* the calls of spawn_executor_pod, attempt by attempt
    exchange,   \* one attempt of execute: its requests to the pod, in order
    reaper      \* the periodic_cleanup task: where its loop is

indexVars == <<files, blobs, allocated, pending, now, reg, hist>>
poolVars == <<executor_pod_queue, executor_pod_queue_spawning_count,
              executor_pod_queue_target_length, fill_tasks, spawn_tasks, pods,
              deleted, calls, leases>>
parseVars == <<payload, passes>>
taskVars == <<spawns, exchange>>
vars == <<config, resp, indexVars, poolVars, parseVars, taskVars, reaper>>

(***************************************************************************)
(* The origin guard (http_server.py).                                      *)
(***************************************************************************)
\* networks a deployment can put on internal_ip_allowlist
Cidrs == {"10.0.0.0/8"}
\* addresses a request can come from (req.client.host)
ClientIps == {"10.1.2.3", "8.8.8.8"}
\* ip_address(ip) in ip_network(cidr)
InNetwork(ip, cidr) == <<ip, cidr>> \in {<<"10.1.2.3", "10.0.0.0/8">>}
\* values of the request's host header
HostHeaders == {"svc.internal", "example.com"}
\* names a deployment can put on internal_host_allowlist
InternalHosts == {"svc.internal"}

\* bool(a or s) for a bool a and a str s: a non-empty string is truthy
PyOrTruthy(a, s) == a \/ (s # "")

_is_internal_request(cfg, host, client) ==
    LET host_ok == host \in cfg.internal_ip_allowlist
        ip_ok == \E cidr \in cfg.internal_ip_allowlist :
                     PyOrTruthy(InNetwork(client, cidr), "127.0.0.1")
    IN  host_ok \/ ip_ok

\* TRUE when the guard raises HTTPException(403)
_guard_spawn(cfg, host, client) ==
    IF cfg.public_spawn_enabled THEN FALSE
    ELSE ~ _is_internal_request(cfg, host, client)

(***************************************************************************)
(* The file-metadata index (utils/file_meta.py).  Each operator takes the  *)
(* table and returns the table the statement leaves.                       *)
(***************************************************************************)
Row(remaining, expires_at) == [remaining |-> remaining, expires_at |-> expires_at]

\* the mutant of register: max_downloads = 0 stored as a limit of 0
RegisterZeroIsLimit(cfg, fs, key, max_downloads, days_to_expire, t) ==
    LET md == IF max_downloads = None THEN Some(cfg.global_max_downloads)
              ELSE max_downloads
        expires_at == IF days_to_expire # None /\ The(days_to_expire) > 0
                      THEN Some(t + The(days_to_expire) * TicksPerDay)
                      ELSE None
    IN  (key :> Row(md, expires_at)) @@ fs

\* the mutant of register: the expiry one day late
RegisterLateExpiry(cfg, fs, key, max_downloads, days_to_expire, t) ==
    LET md == IF max_downloads = None THEN Some(cfg.global_max_downloads)
              ELSE max_downloads
        remaining == IF The(md) = 0 THEN None ELSE md
        expires_at == IF days_to_expire # None /\ The(days_to_expire) > 0
                      THEN Some(t + (The(days_to_expire) + 1) * TicksPerDay)
                      ELSE None
    IN  (key :> Row(remaining, expires_at)) @@ fs

\* INSERT ... ON CONFLICT DO UPDATE SET remaining, expires_at
register(cfg, fs, key, max_downloads, days_to_expire, t) ==
    LET md == IF max_downloads = None THEN Some(cfg.global_max_downloads)
              ELSE max_downloads
        remaining == IF The(md) = 0 THEN None ELSE md
        expires_at == IF days_to_expire # None /\ The(days_to_expire) > 0
                      THEN Some(t + The(days_to_expire) * TicksPerDay)
                      ELSE None
    IN  (key :> Row(remaining, expires_at)) @@ fs

Outcome(raised, fs) == [raised |-> raised, files |-> fs]

\* the mutant of check_and_decrement: the limit test lets remaining = 0 through
CheckAndDecrementOffByOne(fs, key, t) ==
    IF key \notin DOMAIN fs THEN Outcome("FileNotFoundError", fs)
    ELSE LET row == fs[key] IN
         IF row.expires_at # None /\ t > The(row.expires_at)
         THEN Outcome("PermissionError",
                      [fs EXCEPT ![key].remaining = Some(0)])
         ELSE IF row.remaining # None /\ The(row.remaining) < 0
         THEN Outcome("PermissionError", fs)
         ELSE IF row.remaining # None
         THEN Outcome("none",
                      [fs EXCEPT ![key].remaining = Some(The(row.remaining) - 1)])
         ELSE Outcome("none", fs)

\* the mutant of check_and_decrement: a record past its expiry is refused
\* without being marked
CheckAndDecrementNoMark(fs, key, t) ==
    IF key \notin DOMAIN fs THEN Outcome("FileNotFoundError", fs)
    ELSE LET row == fs[key] IN
         IF row.expires_at # None /\ t > The(row.expires_at)
         THEN Outcome("PermissionError", fs)
         ELSE IF row.remaining # None /\ The(row.remaining) <= 0
         THEN Outcome("PermissionError", fs)
         ELSE IF row.remaining # None
         THEN Outcome("none",
                      [fs EXCEPT ![key].remaining = Some(The(row.remaining) - 1)])
         ELSE Outcome("none", fs)

\* the mutant of check_and_decrement: the row is looked up by its hash alone
CheckAndDecrementByHash(fs, key, t) ==
    LET rows == IF key \in DOMAIN fs THEN {key}
                ELSE {k \in DOMAIN fs : k[2] = key[2]}
    IN  IF rows = {} THEN Outcome("FileNotFoundError", fs)
        ELSE LET k == CHOOSE k \in rows : TRUE
                 row == fs[k] IN
             IF row.expires_at # None /\ t > The(row.expires_at)
             THEN Outcome("PermissionError",
                          [fs EXCEPT ![k].remaining = Some(0)])
             ELSE IF row.remaining # None /\ The(row.remaining) <= 0
             THEN Outcome("PermissionError", fs)
             ELSE IF row.remaining # None
             THEN Outcome("none",
                          [fs EXCEPT ![k].remaining = Some(The(row.remaining) - 1)])
             ELSE Outcome("none", fs)

\* SELECT the row; expired by date => remaining := 0 and PermissionError;
\* remaining <= 0 => PermissionError; limited => remaining := remaining - 1
check_and_decrement(fs, key, t) ==
    IF key \notin DOMAIN fs THEN Outcome("FileNotFoundError", fs)
    ELSE LET row == fs[key] IN
         IF row.expires_at # None /\ t > The(row.expires_at)
         THEN Outcome("PermissionError",
                      [fs EXCEPT ![key].remaining = Some(0)])
         ELSE IF row.remaining # None /\ The(row.remaining) <= 0
         THEN Outcome("PermissionError", fs)
         ELSE IF row.remaining # None
         THEN Outcome("none",
                      [fs EXCEPT ![key].remaining = Some(The(row.remaining) - 1)])
         ELSE Outcome("none", fs)

\* the mutant of expire: the record is made unlimited instead of exhausted
ExpireSetsNull(fs, key) ==
    IF key \notin DOMAIN fs THEN Outcome("FileNotFoundError", fs)
    ELSE Outcome("none", [fs EXCEPT ![key].remaining = None])

\* the mutant of expire: the UPDATE matches the rows by their hash alone
ExpireByHash(fs, key) ==
    IF \A k \in DOMAIN fs : k[2] # key[2] THEN Outcome("FileNotFoundError", fs)
    ELSE Outcome("none", [k \in DOMAIN fs |->
                            IF k[2] = key[2]
                            THEN [fs[k] EXCEPT !.remaining = Some(0)]
                            ELSE fs[k]])

\* UPDATE files SET remaining = 0 WHERE key; rowcount = 0 => FileNotFoundError
expire(fs, key) ==
    IF key \notin DOMAIN fs THEN Outcome("FileNotFoundError", fs)
    ELSE Outcome("none", [fs EXCEPT ![key].remaining = Some(0)])

\* the calendar day of a timestamp
Day(t) == t \div TicksPerDay

\* expires_at < datetime('now') compares the stored isoformat() text
\* "<date>T<time>" with SQLite's "<date> <time>": the dates decide, and on
\* the same date "T" sorts after " ", so the stored text is the greater.
\* The server's local time is taken to be UTC.
TextBefore(expires_at, t) == Day(expires_at) < Day(t)

\* the mutant of cleanup_expired_files: the rows past their expiry day are
\* deleted
CleanupDeletesExpired(fs, t) ==
    LET kept == {key \in DOMAIN fs :
                    ~ (/\ fs[key].expires_at # None
                       /\ TextBefore(The(fs[key].expires_at), t))}
    IN  [key \in kept |-> fs[key]]

\* UPDATE files SET remaining = 0 WHERE expires_at IS NOT NULL
\*   AND expires_at < datetime('now') AND remaining != 0
\* (remaining != 0 is NULL, not true, for a NULL remaining)
cleanup_expired_files(fs, t) ==
    [key \in DOMAIN fs |->
        IF /\ fs[key].expires_at # None
           /\ TextBefore(The(fs[key].expires_at), t)
           /\ fs[key].remaining # None
           /\ The(fs[key].remaining) # 0
        THEN [fs[key] EXCEPT !.remaining = Some(0)]
        ELSE fs[key]]

(***************************************************************************)
(* History kept beside the program's state, to state the claims.           *)
(***************************************************************************)
\* how a key was registered: the request's parameters and the clock
Registration(max_downloads, expires_days, expires_in, at) ==
    [max_downloads |-> max_downloads, expires_days |-> expires_days,
     expires_in |-> expires_in, at |-> at]

\* requests since the registration: downloads served (all), answered 200 (ok),
\* answered 404 (nf); input stagings that passed the index (reads); whether
\* expire was called on the key (expired); whether cleanup_expired_files ran
\* while the key was expired or exhausted (swept)
NoHistory == [all |-> 0, ok |-> 0, nf |-> 0, reads |-> 0, expired |-> FALSE,
              swept |-> FALSE]

\* the download limit the registration asked for: the request's max_downloads,
\* the deployment's global_max_downloads when the request has none; 0 is
\* unlimited
RequestedLimit(key) ==
    IF reg[key].max_downloads # None THEN The(reg[key].max_downloads)
    ELSE config.global_max_downloads

\* the time the registration asked the record to expire at, None for never
RequestedExpiry(key) ==
    IF reg[key].expires_days # None /\ The(reg[key].expires_days) >= 1
    THEN Some(reg[key].at + The(reg[key].expires_days) * TicksPerDay)
    ELSE None

\* the download limit of the registration is used up
Exhausted(key) ==
    /\ RequestedLimit(key) >= 1
    /\ hist[key].ok + hist[key].reads >= RequestedLimit(key)

\* the key was expired by expire, or its download limit is used up
Dead(key) ==
    key \in DOMAIN files /\ (hist[key].expired \/ Exhausted(key))

Response(op, origin, key, status, detail, pre, dead) ==
    [op |-> op, origin |-> origin, key |-> key, status |-> status,
     detail |-> detail, pre |-> pre, dead |-> dead]

\* the row of a key before a request, None when the key has no row
Pre(key) == IF key \in DOMAIN files THEN Some(files[key]) ELSE None

(***************************************************************************)
(* The copy loops between a request body, the store and a response body.   *)
(***************************************************************************)
\* read(ChunkSize) of a stream: the next chunk, and what is left of the stream
Take(s, n) == SubSeq(s, 1, Min(n, Len(s)))
Drop(s, n) == SubSeq(s, Min(n, Len(s)) + 1, Len(s))

RECURSIVE WriteFullChunksOnly(_, _)
\* the mutant of write_chunks: the loop ends at the first short chunk and
\* does not write it
WriteFullChunksOnly(source, written) ==
    LET chunk == Take(source, ChunkSize)
    IN  IF Len(chunk) < ChunkSize THEN written
        ELSE WriteFullChunksOnly(Drop(source, ChunkSize), written \o chunk)

RECURSIVE write_chunks(_, _)
\* while chunk := await upload.read(8192): await dest.write(chunk)
\* and, in the harvest, async for chunk in pod_file.aiter_bytes(): write
write_chunks(source, written) ==
    LET chunk == Take(source, ChunkSize)
    IN  IF chunk = <<>> THEN written
        ELSE write_chunks(Drop(source, ChunkSize), written \o chunk)

RECURSIVE file_streamer(_, _)
\* while chunk := file.read(8192): yield chunk
\* the body a client receives is the chunks in the order they are yielded
file_streamer(file, body) ==
    LET chunk == Take(file, ChunkSize)
    IN  IF chunk = <<>> THEN body
        ELSE file_streamer(Drop(file, ChunkSize), body \o chunk)

(***************************************************************************)
(* The HTTP handlers (services/http_server.py).                            *)
(***************************************************************************)
MaxDownloadsInputs == {None} \cup {Some(n) : n \in 0..MaxLimit}
ExpiresDaysInputs == {None} \cup {Some(n) : n \in 0..MaxDays}
\* a duration literal, in ticks, sent as the form field expires_in
ExpiresInInputs == {None, Some(1)}
\* the expiry fields of an upload form: expires_days, expires_in or neither
ExpiryInputs ==
    {e \in ExpiresDaysInputs \X ExpiresInInputs : e[1] = None \/ e[2] = None}

\* if upload.size and upload.size > 1_073_741_824
upload_too_large(cfg, size) == size # 0 /\ size > UploadCap

\* the mutant of upload_file: the guard is evaluated after Storage.writer,
\* so a rejected upload leaves its blob in the store
UploadFileGuardsAfterWrite(host, client, chat_id, filename, max_downloads, expires_days, expires_in, data, hash) ==
    /\ _guard_spawn(config, host, client)
    /\ hash \notin allocated
    /\ allocated' = allocated \cup {hash}
    /\ blobs' = (<<chat_id, hash, filename>> :> write_chunks(data, <<>>)) @@ blobs
    /\ resp' = [sent |-> data] @@
               Response("upload", <<host, client>>, <<>>, 403,
                        "Spawn requests must originate from an internal URL / IP",
                        None, FALSE)
    /\ UNCHANGED <<reaper, parseVars, taskVars, poolVars, config, files, pending, now, reg, hist>>

\* POST /v1/upload: the guard, the size test, the blob, register,
\* get_file_info.  The form field expires_in is not a parameter of the
\* handler, which never reads it.  data is the body of the upload part and
\* hash the handle secrets.token_hex(32) returns in Storage.writer.
upload_file(host, client, chat_id, filename, max_downloads, expires_days, expires_in, data, hash) ==
    IF _guard_spawn(config, host, client)
    THEN /\ resp' = [sent |-> data] @@
                    Response("upload", <<host, client>>, <<>>, 403,
                             "Spawn requests must originate from an internal URL / IP",
                             None, FALSE)
         /\ UNCHANGED <<reaper, parseVars, taskVars, poolVars, config, files, blobs, allocated, pending, now, reg, hist>>
    ELSE IF upload_too_large(config, Len(data))
    THEN /\ resp' = [sent |-> data] @@
                    Response("upload", <<host, client>>, <<>>, 413,
                             "File too large", None, FALSE)
         /\ UNCHANGED <<reaper, parseVars, taskVars, poolVars, config, files, blobs, allocated, pending, now, reg, hist>>
    ELSE /\ hash \notin allocated
         /\ LET key == <<chat_id, hash, filename>>
                max_dl == IF max_downloads # None THEN max_downloads
                          ELSE Some(config.global_max_downloads)
                fs == register(config, files, key, max_dl, expires_days, now)
            IN  /\ allocated' = allocated \cup {hash}
                /\ blobs' = (key :> write_chunks(data, <<>>)) @@ blobs
                /\ files' = fs
                /\ reg' = (key :> Registration(max_downloads, expires_days,
                                               expires_in, now)) @@ reg
                /\ hist' = (key :> NoHistory) @@ hist
                /\ resp' = [sent |-> data] @@
                           Response("upload", <<host, client>>, key, 200, "",
                                    None, FALSE)
         /\ UNCHANGED <<reaper, parseVars, taskVars, poolVars, config, pending, now>>

\* the mutant of download_response: a refused download is answered 410 Gone
DownloadResponseGone(raised, on_disk) ==
    IF raised = "FileNotFoundError" THEN <<404, "File not found">>
    ELSE IF raised = "PermissionError" THEN <<410, "File expired">>
    ELSE IF ~ on_disk THEN <<404, "File not found on disk">>
    ELSE <<200, "">>

\* the except clauses of download and its test of the blob's path
download_response(raised, on_disk) ==
    IF raised = "FileNotFoundError" THEN <<404, "File not found">>
    ELSE IF raised = "PermissionError" THEN <<404, "File not found">>
    ELSE IF ~ on_disk THEN <<404, "File not found on disk">>
    ELSE <<200, "">>

\* POST /v1/download: check_and_decrement, then the blob, streamed
download(key) ==
    /\ key \in DOMAIN files => hist[key].all + hist[key].reads < MaxDownloads
    /\ LET r == check_and_decrement(files, key, now)
           answer == download_response(r.raised, key \in DOMAIN blobs)
           body == IF answer[1] = 200 THEN file_streamer(blobs[key], <<>>)
                   ELSE <<>>
       IN  /\ files' = r.files
           /\ resp' = [body |-> body] @@
                      Response("download", <<>>, key, answer[1], answer[2],
                               Pre(key), Dead(key))
           /\ hist' = IF key \in DOMAIN files
                      THEN [hist EXCEPT ![key].all = @ + 1,
                                        ![key].ok = @ + (IF answer[1] = 200 THEN 1 ELSE 0),
                                        ![key].nf = @ + (IF answer[1] = 404 THEN 1 ELSE 0)]
                      ELSE hist
    /\ UNCHANGED <<reaper, parseVars, taskVars, poolVars, config, blobs, allocated, pending, now, reg>>

\* POST /v1/expire
expire_file(key) ==
    /\ LET r == expire(files, key)
       IN  /\ files' = r.files
           /\ resp' = IF r.raised = "FileNotFoundError"
                      THEN Response("expire", <<>>, key, 404, "File not found",
                                    Pre(key), Dead(key))
                      ELSE Response("expire", <<>>, key, 200, "", Pre(key), Dead(key))
           /\ hist' = IF r.raised = "none"
                      THEN [hist EXCEPT ![key].expired = TRUE]
                      ELSE hist
    /\ UNCHANGED <<reaper, parseVars, taskVars, poolVars, config, blobs, allocated, pending, now, reg>>

\* periodic_cleanup, and the tests' direct calls of cleanup_expired_files
periodic_cleanup ==
    /\ files' = cleanup_expired_files(files, now)
    /\ resp' = Response("cleanup", <<>>, <<>>, 0, "", None, FALSE)
    /\ hist' = [key \in DOMAIN hist |->
                 IF Dead(key) THEN [hist[key] EXCEPT !.swept = TRUE]
                 ELSE hist[key]]
    /\ UNCHANGED <<reaper, parseVars, taskVars, poolVars, config, blobs, allocated, pending, now, reg>>

\* the periodic_cleanup task: cleanup: cleanup_expired_files is called
\* next; sleep: asyncio.sleep is awaited; dead: an exception has ended the
\* task.  raised: the last call raised.  cycles: the calls made, counted
\* up to MaxCycles
Reaper(pc, raised, cycles) == [pc |-> pc, raised |-> raised, cycles |-> cycles]

\* asyncio.create_task(periodic_cleanup()): the task starts with a call
InitReaper == reaper = Reaper("cleanup", FALSE, 0)

\* what cleanup_expired_files, or the UPDATE inside it, raises in a cycle
CleanupExceptions == {"none", "OperationalError"}

\* the mutant of periodic_cleanup_except: the exception leaves the loop
ExceptionEndsTask(exception) == IF exception = "none" THEN "sleep" ELSE "dead"

\* try: cleanup_expired_files() except Exception as e: logger.error(...):
\* where the loop goes after the call, whatever it raised
periodic_cleanup_except(exception) == "sleep"

\* one turn of the loop of periodic_cleanup up to its sleep: the call of
\* cleanup_expired_files, whose UPDATE has run or not when it raises
periodic_cleanup_cycle(exception, updated) ==
    /\ reaper.pc = "cleanup"
    /\ files' = IF exception = "none" \/ updated
                THEN cleanup_expired_files(files, now) ELSE files
    /\ resp' = Response("cleanup", <<>>, <<>>, 0,
                        IF exception = "none" THEN "" ELSE exception, None, FALSE)
    /\ hist' = IF exception = "none" \/ updated
               THEN [key \in DOMAIN hist |->
                       IF Dead(key) THEN [hist[key] EXCEPT !.swept = TRUE]
                       ELSE hist[key]]
               ELSE hist
    /\ reaper' = Reaper(periodic_cleanup_except(exception), exception # "none",
                        IF reaper.cycles < MaxCycles THEN reaper.cycles + 1
                        ELSE reaper.cycles)
    /\ UNCHANGED <<parseVars, taskVars, poolVars, config, blobs, allocated, pending, now, reg>>

\* await asyncio.sleep(3 * 60 * 60) returns: the loop turns
periodic_cleanup_sleep ==
    /\ reaper.pc = "sleep"
    /\ reaper' = [reaper EXCEPT !.pc = "cleanup"]
    /\ UNCHANGED <<parseVars, taskVars, poolVars, config, resp, indexVars>>

(***************************************************************************)
(* The index as the execution pipeline uses it                             *)
(* (services/storage.py, services/kubernetes_code_executor.py).            *)
(***************************************************************************)
\* the mutant of reader: the blob is opened without asking the index
ReaderWithoutIndex(key) ==
    /\ key \in DOMAIN files => hist[key].all + hist[key].reads < MaxDownloads
    /\ resp' = Response("stage", <<>>, key,
                        IF key \in DOMAIN blobs THEN 0 ELSE 500,
                        IF key \in DOMAIN blobs THEN "none" ELSE "FileNotFoundError",
                        Pre(key), Dead(key))
    /\ UNCHANGED <<reaper, parseVars, taskVars, poolVars, config, files, blobs, allocated, pending, now, reg, hist>>

\* Storage.reader, entered to stage an input file: check_and_decrement, then
\* the test that the blob exists; an exception fails the execute request
\* (500), status 0 is no response yet
reader(key) ==
    /\ key \in DOMAIN files => hist[key].all + hist[key].reads < MaxDownloads
    /\ LET r == check_and_decrement(files, key, now)
           raised == IF r.raised = "none" /\ key \notin DOMAIN blobs
                     THEN "FileNotFoundError" ELSE r.raised
       IN  /\ files' = r.files
           /\ resp' = Response("stage", <<>>, key,
                               IF raised = "none" THEN 0 ELSE 500,
                               raised, Pre(key), Dead(key))
           /\ hist' = IF key \in DOMAIN files /\ r.raised = "none"
                      THEN [hist EXCEPT ![key].reads = @ + 1]
                      ELSE hist
    /\ UNCHANGED <<reaper, parseVars, taskVars, poolVars, config, blobs, allocated, pending, now, reg>>

\* the workspace paths a snippet writes files at
Paths == {"/workspace/a.txt", "/workspace/out/b.txt"}
\* os.path.basename
basename(path) ==
    IF path = "/workspace/a.txt" THEN "a.txt"
    ELSE IF path = "/workspace/out/b.txt" THEN "b.txt"
    ELSE path

\* no execute request is past POST /execute
NoHarvest ==
    [running |-> FALSE, chat_id |-> "", persistent_workspace |-> FALSE,
     wrote |-> <<>>, to_collect |-> {}, stored_files |-> <<>>]

\* the mutant of files_to_collect: the changed files are collected whatever
\* persistent_workspace is
CollectAlways(persistent_workspace, response_files) == response_files

\* if persistent_workspace and response["files"]: the paths download_file
\* is called for
files_to_collect(persistent_workspace, response_files) ==
    IF persistent_workspace /\ response_files # {} THEN response_files ELSE {}

\* KubernetesCodeExecutor.execute after the pod has answered POST /execute:
\* wrote is what the snippet left in the workspace, path -> bytes, and
\* response["files"] its paths
execute_post(chat_id, persistent_workspace, wrote) ==
    /\ ~ pending.running
    /\ pending' = [running |-> TRUE, chat_id |-> chat_id,
                   persistent_workspace |-> persistent_workspace,
                   wrote |-> wrote,
                   to_collect |-> files_to_collect(persistent_workspace,
                                                   DOMAIN wrote),
                   stored_files |-> <<>>]
    /\ resp' = Response("post", <<>>, <<>>, 0, "", None, FALSE)
    /\ UNCHANGED <<reaper, parseVars, taskVars, poolVars, config, files, blobs, allocated, now, reg, hist>>

\* the mutant of download_file: the file is stored and registered under the
\* chat "default", whatever the request's chat_id is
DownloadFileForDefaultChat(file_path, hash) ==
    /\ pending.running
    /\ file_path \in pending.to_collect
    /\ hash \notin allocated
    /\ LET key == <<"default", hash, basename(file_path)>>
           fs == register(config, files, key, Some(config.global_max_downloads),
                          None, now)
       IN  /\ allocated' = allocated \cup {hash}
           /\ blobs' = (key :> write_chunks(pending.wrote[file_path], <<>>)) @@ blobs
           /\ files' = fs
           /\ pending' = [pending EXCEPT
                            !.to_collect = @ \ {file_path},
                            !.stored_files = (file_path :> hash) @@ @]
           /\ reg' = (key :> Registration(Some(config.global_max_downloads), None,
                                          None, now)) @@ reg
           /\ hist' = (key :> NoHistory) @@ hist
           /\ resp' = Response("harvest", <<>>, key, 0, "", None, FALSE)
    /\ UNCHANGED <<reaper, parseVars, taskVars, poolVars, config, now>>

\* what POST /v1/execute answers beside stdout, stderr and exit_code
ExecuteResponse(result_files, files_metadata, persistent_workspace, chat_id, max_downloads, wrote) ==
    [files |-> result_files, files_metadata |-> files_metadata,
     persistent_workspace |-> persistent_workspace, chat_id |-> chat_id,
     max_downloads |-> max_downloads, wrote |-> wrote]

\* register refuses an empty file_hash, chat_id or filename with a TypeError
register_rejects(key) == key[1] = "" \/ key[2] = "" \/ key[3] = ""

\* what POST /v1/execute answers when code_executor.execute has raised in
\* the harvest: except Exception answers 500, a CancelledError is not an
\* Exception and passes through with no answer (status 0); result_files are
\* the files the call had harvested before
execute_failed(exception, key, result_files) ==
    ExecuteResponse(result_files, <<>>, pending.persistent_workspace,
                    pending.chat_id, None, pending.wrote)
    @@ Response("executed", <<>>, key,
                IF exception = "CancelledError" THEN 0 ELSE 500,
                exception, None, FALSE)

\* the mutant of download_file: the record is registered as the writer is
\* entered, and the file is not written
DownloadFileRegistersUnwritten(file_path, hash) ==
    /\ pending.running
    /\ file_path \in pending.to_collect
    /\ hash \notin allocated
    /\ LET key == <<pending.chat_id, hash, basename(file_path)>>
       IN  /\ allocated' = allocated \cup {hash}
           /\ files' = register(config, files, key,
                                Some(config.global_max_downloads), None, now)
           /\ pending' = [pending EXCEPT
                            !.to_collect = @ \ {file_path},
                            !.stored_files = (file_path :> hash) @@ @]
           /\ reg' = (key :> Registration(Some(config.global_max_downloads),
                                          None, None, now)) @@ reg
           /\ hist' = (key :> NoHistory) @@ hist
           /\ resp' = Response("harvest", <<>>, key, 0, "", None, FALSE)
    /\ UNCHANGED <<reaper, parseVars, taskVars, poolVars, config, blobs, now>>

\* download_file of execute: a produced file is written to the store under
\* a new handle and the basename of its path, and registered with the
\* global default and no expiry; when register raises, the blob is written,
\* the gather raises and execute fails
download_file(file_path, hash) ==
    /\ pending.running
    /\ file_path \in pending.to_collect
    /\ hash \notin allocated
    /\ LET key == <<pending.chat_id, hash, basename(file_path)>>
           fs == register(config, files, key, Some(config.global_max_downloads),
                          None, now)
       IN  /\ allocated' = allocated \cup {hash}
           /\ blobs' = (key :> write_chunks(pending.wrote[file_path], <<>>)) @@ blobs
           /\ IF register_rejects(key)
              THEN /\ pending' = NoHarvest
                   /\ resp' = execute_failed("TypeError", key, pending.stored_files)
                   /\ UNCHANGED <<files, reg, hist>>
              ELSE /\ files' = fs
                   /\ pending' = [pending EXCEPT
                                    !.to_collect = @ \ {file_path},
                                    !.stored_files = (file_path :> hash) @@ @]
                   /\ reg' = (key :> Registration(Some(config.global_max_downloads),
                                                  None, None, now)) @@ reg
                   /\ hist' = (key :> NoHistory) @@ hist
                   /\ resp' = Response("harvest", <<>>, key, 0, "", None, FALSE)
    /\ UNCHANGED <<reaper, parseVars, taskVars, poolVars, config, now>>

\* what ends a download_file before its register: the GET of the file
\* answers an error status (raise_for_status), the stream breaks, or the
\* execute call is cancelled
HarvestExceptions == {"HTTPStatusError", "StreamError", "CancelledError"}

\* download_file of execute ended by an exception: Storage.writer has
\* made the file under a new handle and a first chunk may be written, no
\* record is registered for it, the gather raises and execute fails; the
\* files harvested before stay as they are
download_file_failed(file_path, hash, exception) ==
    /\ pending.running
    /\ file_path \in pending.to_collect
    /\ hash \notin allocated
    /\ LET key == <<pending.chat_id, hash, basename(file_path)>>
           chunks == IF exception = "HTTPStatusError" THEN {0} ELSE {0, 1}
       IN  /\ allocated' = allocated \cup {hash}
           /\ \E n \in chunks :
                 blobs' = (key :> Take(pending.wrote[file_path], n * ChunkSize))
                          @@ blobs
           /\ pending' = NoHarvest
           /\ resp' = execute_failed(exception, key, pending.stored_files)
    /\ UNCHANGED <<reaper, parseVars, taskVars, poolVars, config, files, now, reg, hist>>

\* the keys of result.files: the request's chat_id, the handle, the basename
ResultKeys(chat_id, result_files) ==
    {<<chat_id, result_files[path], basename(path)>> : path \in DOMAIN result_files}

\* the mutant of RegisterAll: the files are registered without the
\* request's max_downloads
RegisterAllWithDefault(fs, keys, max_downloads, expires_days) ==
    [key \in DOMAIN fs |->
        IF key \in keys
        THEN register(config, fs, key, None, expires_days, now)[key]
        ELSE fs[key]]

RECURSIVE RegisterAll(_, _, _, _)
\* the loop of the execute handler over result.files
RegisterAll(fs, keys, max_downloads, expires_days) ==
    IF keys = {} THEN fs
    ELSE LET key == CHOOSE k \in keys : TRUE
         IN  RegisterAll(register(config, fs, key, max_downloads, expires_days, now),
                         keys \ {key}, max_downloads, expires_days)

\* if config.require_chat_id and not request.chat_id: the test that raises
\* HTTPException(403) inside the try of the registering block
chat_id_required(cfg, chat_id) == cfg.require_chat_id /\ chat_id = ""

\* POST /v1/execute after code_executor.execute has returned.  With
\* persistent_workspace every harvested file is registered again, with the
\* request's max_downloads and expires_days, and get_file_info is read into
\* files_metadata; without it the executor's result is returned as it is.
\* The HTTPException(403) of the chat_id test is raised inside the try of
\* the registering block, whose except Exception logs it ("Error
\* registering files"): the executor's result is returned then, with 200.
execute_register(max_downloads, expires_days) ==
    /\ pending.running
    /\ pending.to_collect = {}
    /\ LET result_files == pending.stored_files
           keys == ResultKeys(pending.chat_id, result_files)
           registering == /\ pending.persistent_workspace
                          /\ ~ chat_id_required(config, pending.chat_id)
           fs == IF registering
                 THEN RegisterAll(files, keys, max_downloads, expires_days)
                 ELSE files
           files_metadata ==
               IF registering
               THEN [path \in DOMAIN result_files |->
                       fs[<<pending.chat_id, result_files[path], basename(path)>>]]
               ELSE <<>>
       IN  /\ files' = fs
           /\ reg' = [key \in DOMAIN reg |->
                        IF key \in keys /\ registering
                        THEN Registration(max_downloads, expires_days, None, now)
                        ELSE reg[key]]
           /\ hist' = [key \in DOMAIN hist |->
                        IF key \in keys /\ registering
                        THEN NoHistory ELSE hist[key]]
           /\ resp' = ExecuteResponse(result_files, files_metadata,
                                      pending.persistent_workspace,
                                      pending.chat_id, max_downloads,
                                      pending.wrote)
                      @@ Response("executed", <<>>, <<>>, 200, "", None, FALSE)
    /\ pending' = NoHarvest
    /\ UNCHANGED <<reaper, parseVars, taskVars, poolVars, config, blobs, allocated, now>>

\* time passes
Tick ==
    /\ now < MaxTime
    /\ now' = now + 1
    /\ resp' = Response("tick", <<>>, <<>>, 0, "", None, FALSE)
    /\ UNCHANGED <<reaper, parseVars, taskVars, poolVars, config, files, blobs, allocated, pending, reg, hist>>

(***************************************************************************)
(* The executor pod pool and the execution pipeline                        *)
(* (services/kubernetes_code_executor.py).  A pod is a number: the pods    *)
(* the cluster has created are 1..pods, and a new pod gets a new number.   *)
(***************************************************************************)
\* the execute requests a run serves
Calls == {"e1", "e2"}
\* stop_after_attempt of the retry around KubernetesCodeExecutor.execute
StopAfterAttempt == 3

\* where an execute request is: not yet received (idle), turned away by the
\* guard (rejected), past the guard (admitted), in executor_pod waiting for
\* spawn_executor_pod (spawning), inside the pod's scope (staging, posting,
\* harvesting), between two attempts (waiting), answered (returned, raised),
\* cancelled; exception is the last exception of an attempt, posts the
\* number of POST /execute the request has sent
Call(pc, pod, attempt, failed_at, exception, posts) ==
    [pc |-> pc, pod |-> pod, attempt |-> attempt, failed_at |-> failed_at,
     exception |-> exception, posts |-> posts]
InScope == {"staging", "posting", "harvesting"}

\* the mutant of popleft: the head is read and stays in the deque
PeekLeft(queue) == [pod |-> Head(queue), queue |-> queue]

\* executor_pod_queue.popleft()
popleft(queue) == [pod |-> Head(queue), queue |-> Tail(queue)]

\* the mutant of count_to_spawn: the spawns in flight are not subtracted
CountIgnoringSpawning(target_length, queue, spawning_count) ==
    target_length - Len(queue)

\* the mutant of count_to_spawn: one pod fewer than the queue lacks
CountOneShort(target_length, queue, spawning_count) ==
    target_length - Len(queue) - spawning_count - 1

\* count_to_spawn of fill_executor_pod_queue
count_to_spawn(target_length, queue, spawning_count) ==
    target_length - Len(queue) - spawning_count

\* the mutant of executor_pod_exit: the pod is deleted only after a success
DeleteOnSuccessOnly(ds, pod, outcome) ==
    IF outcome = "returned" THEN ds \cup {pod} ELSE ds

\* the mutant of executor_pod_exit: except Exception in the place of
\* finally, which a CancelledError passes by
DeleteUnlessCancelled(ds, pod, outcome) ==
    IF outcome = "cancelled" THEN ds ELSE ds \cup {pod}

\* the finally clause of executor_pod: create_task(kubectl.delete("pod", name)),
\* whether the scope is left by a return, an exception or a cancellation
executor_pod_exit(ds, pod, outcome) == ds \cup {pod}

\* the bodies of execute requests: JSON text, and text that is no JSON
Bodies == {"json", "broken"}

\* json.loads(raw_bytes): the exception it raises
json_loads(body) == IF body = "broken" THEN "JSONDecodeError" ELSE "none"

\* POST /v1/execute arrives: _guard_spawn, then json.loads of the body, which
\* no try encloses: its exception leaves the handler and the server answers
\* 500.  An admitted request has no response yet (status 0).
execute(c, host, client, body) ==
    /\ calls[c].pc = "idle"
    /\ IF _guard_spawn(config, host, client)
       THEN /\ calls' = [calls EXCEPT ![c].pc = "rejected"]
            /\ resp' = [body |-> body] @@
                       Response("execute", <<host, client>>, <<>>, 403,
                                "Spawn requests must originate from an internal URL / IP",
                                None, FALSE)
       ELSE IF json_loads(body) # "none"
       THEN /\ calls' = [calls EXCEPT ![c].pc = "raised",
                                      ![c].failed_at = "parsing"]
            /\ resp' = [body |-> body] @@
                       Response("execute", <<host, client>>, <<>>, 500,
                                json_loads(body), None, FALSE)
       ELSE /\ calls' = [calls EXCEPT ![c].pc = "admitted"]
            /\ resp' = [body |-> body] @@
                       Response("execute", <<host, client>>, <<>>, 0, "",
                                None, FALSE)
    /\ UNCHANGED <<reaper, parseVars, taskVars, config, indexVars, executor_pod_queue,
                   executor_pod_queue_spawning_count,
                   executor_pod_queue_target_length, fill_tasks, spawn_tasks,
                   pods, deleted, leases>>

\* executor_pod, entered by an attempt of execute: a queued pod is popped
\* and a fill task is created, or the request awaits spawn_executor_pod
executor_pod(c) ==
    /\ calls[c].pc \in {"admitted", "waiting"}
    /\ IF executor_pod_queue # <<>>
       THEN LET r == popleft(executor_pod_queue)
            IN  /\ executor_pod_queue' = r.queue
                /\ leases' = [leases EXCEPT ![r.pod] = @ + 1]
                /\ fill_tasks' = fill_tasks + 1
                /\ calls' = [calls EXCEPT ![c].pc = "staging", ![c].pod = r.pod]
       ELSE /\ calls' = [calls EXCEPT ![c].pc = "spawning"]
            /\ UNCHANGED <<executor_pod_queue, leases, fill_tasks>>
    /\ UNCHANGED <<reaper, parseVars, taskVars, config, resp, indexVars, executor_pod_queue_spawning_count,
                   executor_pod_queue_target_length, spawn_tasks, pods, deleted>>

\* executor_pod: the awaited spawn_executor_pod returns a Ready pod, a fill
\* task is created
executor_pod_spawned(c) ==
    /\ calls[c].pc = "spawning"
    /\ pods < MaxPods
    /\ pods' = pods + 1
    /\ leases' = [leases EXCEPT ![pods + 1] = @ + 1]
    /\ fill_tasks' = fill_tasks + 1
    /\ calls' = [calls EXCEPT ![c].pc = "staging", ![c].pod = pods + 1]
    /\ UNCHANGED <<reaper, parseVars, taskVars, config, resp, indexVars, executor_pod_queue,
                   executor_pod_queue_spawning_count,
                   executor_pod_queue_target_length, spawn_tasks, deleted>>

\* executor_pod: the awaited spawn_executor_pod gives up; its RetryError is
\* no RuntimeError, so execute is not tried again and the request gets 500
executor_pod_spawn_failed(c) ==
    /\ calls[c].pc = "spawning"
    /\ calls' = [calls EXCEPT ![c].pc = "raised", ![c].failed_at = "spawning",
                              ![c].exception = "RetryError"]
    /\ resp' = Response("executed", <<>>, <<>>, 500, "RetryError", None, FALSE)
    /\ UNCHANGED <<reaper, parseVars, taskVars, config, indexVars, executor_pod_queue,
                   executor_pod_queue_spawning_count,
                   executor_pod_queue_target_length, fill_tasks, spawn_tasks,
                   pods, deleted, leases>>

\* a fill_executor_pod_queue task runs up to its first await
fill_executor_pod_queue ==
    /\ fill_tasks > 0
    /\ fill_tasks' = fill_tasks - 1
    /\ LET count == count_to_spawn(executor_pod_queue_target_length,
                                   executor_pod_queue,
                                   executor_pod_queue_spawning_count)
       IN  IF count <= 0
           THEN UNCHANGED <<executor_pod_queue_spawning_count, spawn_tasks>>
           ELSE /\ executor_pod_queue_spawning_count' =
                       executor_pod_queue_spawning_count + count
                /\ spawn_tasks' = spawn_tasks + count
    /\ UNCHANGED <<reaper, parseVars, taskVars, config, resp, indexVars, executor_pod_queue,
                   executor_pod_queue_target_length, pods, deleted, calls, leases>>

\* the loop of fill_executor_pod_queue: a spawn task returned a Ready pod
fill_spawned ==
    /\ spawn_tasks > 0
    /\ pods < MaxPods
    /\ pods' = pods + 1
    /\ executor_pod_queue' = Append(executor_pod_queue, pods + 1)
    /\ executor_pod_queue_spawning_count' = executor_pod_queue_spawning_count - 1
    /\ spawn_tasks' = spawn_tasks - 1
    /\ UNCHANGED <<reaper, parseVars, taskVars, config, resp, indexVars, executor_pod_queue_target_length,
                   fill_tasks, deleted, calls, leases>>

\* the mutant of fill_spawn_failed: the counter is decremented in the try,
\* after the append, and not in a finally
FillSpawnFailedKeepsCount ==
    /\ spawn_tasks > 0
    /\ spawn_tasks' = spawn_tasks - 1
    /\ UNCHANGED <<reaper, parseVars, taskVars, config, resp, indexVars, executor_pod_queue,
                   executor_pod_queue_spawning_count,
                   executor_pod_queue_target_length, fill_tasks, pods, deleted,
                   calls, leases>>

\* the loop of fill_executor_pod_queue: a spawn task raised
fill_spawn_failed ==
    /\ spawn_tasks > 0
    /\ executor_pod_queue_spawning_count' = executor_pod_queue_spawning_count - 1
    /\ spawn_tasks' = spawn_tasks - 1
    /\ UNCHANGED <<reaper, parseVars, taskVars, config, resp, indexVars, executor_pod_queue,
                   executor_pod_queue_target_length, fill_tasks, pods, deleted,
                   calls, leases>>

\* execute, inside the pod's scope: the input files are staged, then the
\* code is posted to the pod (the POST is sent as the gather of the
\* stagings returns), then the pod answers
execute_step(c) ==
    /\ calls[c].pc \in {"staging", "posting"}
    /\ calls' = IF calls[c].pc = "staging"
                THEN [calls EXCEPT ![c].pc = "posting", ![c].posts = @ + 1]
                ELSE [calls EXCEPT ![c].pc = "harvesting"]
    /\ UNCHANGED <<reaper, parseVars, taskVars, config, resp, indexVars, executor_pod_queue,
                   executor_pod_queue_spawning_count,
                   executor_pod_queue_target_length, fill_tasks, spawn_tasks,
                   pods, deleted, leases>>

\* execute returns its Result: the scope is left, the pod's delete is issued
execute_return(c) ==
    /\ calls[c].pc = "harvesting"
    /\ deleted' = executor_pod_exit(deleted, calls[c].pod, "returned")
    /\ calls' = [calls EXCEPT ![c].pc = "returned"]
    /\ resp' = Response("executed", <<>>, <<>>, 200, "", None, FALSE)
    /\ UNCHANGED <<reaper, parseVars, taskVars, config, indexVars, executor_pod_queue,
                   executor_pod_queue_spawning_count,
                   executor_pod_queue_target_length, fill_tasks, spawn_tasks,
                   pods, leases>>

\* what an attempt raises inside the pod's scope: the errors of the HTTP
\* exchange with the pod (httpx.HTTPError: transport errors, timeouts; the
\* HTTPStatusError of raise_for_status), which are no RuntimeError, and a
\* RuntimeError
ScopeExceptions == {"HTTPError", "RuntimeError"}

\* the mutant of retry_if_exception_type: every exception is retried
RetryIfAnyException(exception) == TRUE

\* retry=retry_if_exception_type(RuntimeError)
retry_if_exception_type(exception) == exception = "RuntimeError"

\* an exception inside the pod's scope: the scope is left, the pod's delete
\* is issued; a RuntimeError before the last attempt starts another attempt,
\* any other exception fails the request (500) and so does the last
\* attempt's RuntimeError, as a RetryError
execute_raise(c, exception) ==
    /\ calls[c].pc \in InScope
    /\ deleted' = executor_pod_exit(deleted, calls[c].pod, "raised")
    /\ IF retry_if_exception_type(exception) /\ calls[c].attempt < StopAfterAttempt
       THEN /\ calls' = [calls EXCEPT ![c].pc = "waiting",
                                      ![c].attempt = @ + 1,
                                      ![c].failed_at = calls[c].pc,
                                      ![c].exception = exception]
            /\ UNCHANGED resp
       ELSE /\ calls' = [calls EXCEPT ![c].pc = "raised",
                                      ![c].failed_at = calls[c].pc,
                                      ![c].exception = exception]
            /\ resp' = Response("executed", <<>>, <<>>, 500,
                                IF retry_if_exception_type(exception)
                                THEN "RetryError" ELSE exception,
                                None, FALSE)
    /\ UNCHANGED <<reaper, parseVars, taskVars, config, indexVars, executor_pod_queue,
                   executor_pod_queue_spawning_count,
                   executor_pod_queue_target_length, fill_tasks, spawn_tasks,
                   pods, leases>>

\* execute, inside the pod's scope, stages the input file of the request:
\* upload_file enters Storage.reader, which calls check_and_decrement and
\* tests that the blob exists; the PUT follows and the gather returns.  An
\* exception of the reader is no RuntimeError: it leaves the scope and
\* fails the request
execute_stage(c, key) ==
    /\ calls[c].pc = "staging"
    /\ key \in DOMAIN files => hist[key].all + hist[key].reads < MaxDownloads
    /\ LET r == check_and_decrement(files, key, now)
           raised == IF r.raised = "none" /\ key \notin DOMAIN blobs
                     THEN "FileNotFoundError" ELSE r.raised
       IN  /\ files' = r.files
           /\ hist' = IF key \in DOMAIN files /\ r.raised = "none"
                      THEN [hist EXCEPT ![key].reads = @ + 1]
                      ELSE hist
           /\ IF raised = "none"
              THEN /\ calls' = [calls EXCEPT ![c].pc = "posting",
                                             ![c].posts = @ + 1]
                   /\ UNCHANGED <<deleted, resp>>
              ELSE /\ deleted' = executor_pod_exit(deleted, calls[c].pod, "raised")
                   /\ calls' = [calls EXCEPT ![c].pc = "raised",
                                             ![c].failed_at = "staging",
                                             ![c].exception = raised]
                   /\ resp' = Response("executed", <<>>, key, 500, raised,
                                       Pre(key), Dead(key))
    /\ UNCHANGED <<reaper, parseVars, taskVars, config, blobs, allocated, pending, now,
                   reg, executor_pod_queue, executor_pod_queue_spawning_count,
                   executor_pod_queue_target_length, fill_tasks, spawn_tasks,
                   pods, leases>>

\* the task of an execute request is cancelled at an await: inside the
\* pod's scope the CancelledError leaves the scope through the finally of
\* executor_pod, which issues the pod's delete; while the request awaits
\* spawn_executor_pod or the wait between two attempts it holds no pod.
\* A CancelledError is no Exception: nothing catches it, no answer is sent.
execute_cancel(c) ==
    /\ calls[c].pc \in InScope \cup {"spawning", "waiting"}
    /\ deleted' = IF calls[c].pc \in InScope
                  THEN executor_pod_exit(deleted, calls[c].pod, "cancelled")
                  ELSE deleted
    /\ calls' = [calls EXCEPT ![c].pc = "cancelled",
                              ![c].failed_at = calls[c].pc,
                              ![c].exception = "CancelledError"]
    /\ UNCHANGED <<reaper, parseVars, taskVars, config, resp, indexVars, executor_pod_queue,
                   executor_pod_queue_spawning_count,
                   executor_pod_queue_target_length, fill_tasks, spawn_tasks,
                   pods, leases>>

(***************************************************************************)
(* spawn_executor_pod, attempt by attempt (kubernetes_code_executor.py).   *)
(* The outcomes of kubectl get, create, wait and delete are the cluster's. *)
(* The name of an attempt is the task and the number of the attempt: the   *)
(* random suffixes of two attempts are taken to differ.                    *)
(***************************************************************************)
\* the calls of spawn_executor_pod that are followed attempt by attempt
Spawners == {"s1", "s2"}

\* a call of spawn_executor_pod: where it is (idle: not made; get, create,
\* wait, deleting: awaiting that kubectl call; backoff: between two
\* attempts; returned, failed; appended, logged, leased, raised: its
\* outcome was taken by the caller), who awaits it (a fill task or
\* executor_pod), the number of the attempt, the step that failed in it,
\* the names create was called for (made), the names delete was called for
\* (removed), the attempts that raised RuntimeError after their delete, each
\* as its name and whether the delete went well (reported), and the
\* exception the call ended with
SpawnTask(pc, owner, attempt, step, made, removed, reported, exception) ==
    [pc |-> pc, owner |-> owner, attempt |-> attempt, step |-> step,
     made |-> made, removed |-> removed, reported |-> reported,
     exception |-> exception]

\* self_pod is None, nothing is logged, no call is made
NoSpawns ==
    [self_pod |-> FALSE, logged |-> 0,
     tasks |-> [t \in Spawners |-> SpawnTask("idle", "", 1, "", {}, {}, {}, "")]]

\* the name of the attempt a call is in
spawn_name(t) == <<t, spawns.tasks[t].attempt>>

\* the calls a fill task awaits
FillAwaited ==
    {t \in Spawners : /\ spawns.tasks[t].owner = "fill"
                      /\ spawns.tasks[t].pc \notin {"appended", "logged"}}

\* the mutant of stop_after_attempt: one more attempt is made
StopOneLater(attempt) == attempt >= StopAfterAttempt + 1

\* stop=stop_after_attempt(3) of spawn_executor_pod
stop_after_attempt(attempt) == attempt >= StopAfterAttempt

\* the retry around spawn_executor_pod after an attempt raised: a
\* RuntimeError is retried until stop_after_attempt, then RetryError is
\* raised; any other exception is raised as it is
spawn_raise(task, exception) ==
    IF exception # "RuntimeError"
    THEN [task EXCEPT !.pc = "failed", !.exception = exception]
    ELSE IF stop_after_attempt(task.attempt)
    THEN [task EXCEPT !.pc = "failed", !.exception = "RetryError"]
    ELSE [task EXCEPT !.pc = "backoff"]

\* the start of an attempt: if self.self_pod is None, kubectl get
spawn_attempt(task) ==
    [task EXCEPT !.pc = IF spawns.self_pod THEN "create" ELSE "get",
                 !.step = ""]

\* spawn_executor_pod is called: by a fill task (create_task for each of
\* count_to_spawn) or by executor_pod when the queue is empty
spawn_executor_pod(t, owner) ==
    /\ spawns.tasks[t].pc = "idle"
    /\ IF owner = "fill"
       THEN Cardinality(FillAwaited) < spawn_tasks
       ELSE executor_pod_queue = <<>>
    /\ spawns' = [spawns EXCEPT
                    !.tasks[t] = spawn_attempt([@ EXCEPT !.owner = owner])]
    /\ UNCHANGED <<reaper, parseVars, exchange, config, resp, indexVars, poolVars>>

\* the wait between two attempts is over
spawn_again(t) ==
    /\ spawns.tasks[t].pc = "backoff"
    /\ spawns' = [spawns EXCEPT
                    !.tasks[t] = spawn_attempt([@ EXCEPT !.attempt = @ + 1])]
    /\ UNCHANGED <<reaper, parseVars, exchange, config, resp, indexVars, poolVars>>

\* what kubectl get ends with: the pod, or an exception of kubectl
GetOutcomes == {"ok", "RuntimeError", "Exception"}

\* kubectl get of the service's own pod, outside the try: its exception
\* leaves the attempt as it is
spawn_get(t, outcome) ==
    /\ spawns.tasks[t].pc = "get"
    /\ spawns' = IF outcome = "ok"
                 THEN [spawns EXCEPT !.self_pod = TRUE, !.tasks[t].pc = "create"]
                 ELSE [spawns EXCEPT !.tasks[t] = spawn_raise(@, outcome)]
    /\ UNCHANGED <<reaper, parseVars, exchange, config, resp, indexVars, poolVars>>

\* the mutant of cleanup: a pod whose create failed is not deleted
CleanupAfterWaitOnly(step, name) == IF step = "wait" THEN {name} ELSE {}

\* except Exception: await kubectl.delete("pod", name), whichever step raised
cleanup(step, name) == {name}

\* kubectl create of the pod of this attempt
spawn_create(t, ok) ==
    /\ spawns.tasks[t].pc = "create"
    /\ spawns' = [spawns EXCEPT
                    !.tasks[t] =
                       IF ok
                       THEN [@ EXCEPT !.pc = "wait",
                                      !.made = @ \cup {spawn_name(t)}]
                       ELSE [@ EXCEPT !.pc = "deleting", !.step = "create",
                                      !.made = @ \cup {spawn_name(t)},
                                      !.removed = @ \cup cleanup("create", spawn_name(t))]]
    /\ UNCHANGED <<reaper, parseVars, exchange, config, resp, indexVars, poolVars>>

\* kubectl wait --for=condition=Ready: the pod is returned, or the wait
\* raised
spawn_wait(t, ok) ==
    /\ spawns.tasks[t].pc = "wait"
    /\ spawns' = [spawns EXCEPT
                    !.tasks[t] =
                       IF ok
                       THEN [@ EXCEPT !.pc = "returned"]
                       ELSE [@ EXCEPT !.pc = "deleting", !.step = "wait",
                                      !.removed = @ \cup cleanup("wait", spawn_name(t))]]
    /\ UNCHANGED <<reaper, parseVars, exchange, config, resp, indexVars, poolVars>>

\* the awaited kubectl delete ends, well or not: finally: raise
\* RuntimeError("Failed to spawn the pod")
spawn_delete(t, ok) ==
    /\ spawns.tasks[t].pc = "deleting"
    /\ spawns' = [spawns EXCEPT
                    !.tasks[t] =
                       spawn_raise([@ EXCEPT !.reported = @ \cup {<<spawn_name(t), ok>>}],
                                   "RuntimeError")]
    /\ UNCHANGED <<reaper, parseVars, exchange, config, resp, indexVars, poolVars>>

\* the loop of fill_executor_pod_queue: executor_pod_queue.append(await
\* pod_task), finally the counter is decremented
fill_append(t) ==
    /\ spawns.tasks[t].owner = "fill"
    /\ spawns.tasks[t].pc = "returned"
    /\ pods < MaxPods
    /\ pods' = pods + 1
    /\ executor_pod_queue' = Append(executor_pod_queue, pods + 1)
    /\ executor_pod_queue_spawning_count' = executor_pod_queue_spawning_count - 1
    /\ spawn_tasks' = spawn_tasks - 1
    /\ spawns' = [spawns EXCEPT !.tasks[t].pc = "appended"]
    /\ UNCHANGED <<reaper, parseVars, exchange, config, resp, indexVars, executor_pod_queue_target_length,
                   fill_tasks, deleted, calls, leases>>

\* the loop of fill_executor_pod_queue: except Exception:
\* logger.exception("Failed to spawn executor pod"), finally the counter is
\* decremented; the loop goes on to the next task
fill_log(t) ==
    /\ spawns.tasks[t].owner = "fill"
    /\ spawns.tasks[t].pc = "failed"
    /\ executor_pod_queue_spawning_count' = executor_pod_queue_spawning_count - 1
    /\ spawn_tasks' = spawn_tasks - 1
    /\ spawns' = [spawns EXCEPT !.tasks[t].pc = "logged", !.logged = @ + 1]
    /\ UNCHANGED <<reaper, parseVars, exchange, config, resp, indexVars, executor_pod_queue,
                   executor_pod_queue_target_length, fill_tasks, pods, deleted,
                   calls, leases>>

\* executor_pod: the awaited spawn_executor_pod returned the pod, a fill
\* task is created
lease_spawned(t) ==
    /\ spawns.tasks[t].owner = "lease"
    /\ spawns.tasks[t].pc = "returned"
    /\ pods < MaxPods
    /\ pods' = pods + 1
    /\ leases' = [leases EXCEPT ![pods + 1] = @ + 1]
    /\ fill_tasks' = fill_tasks + 1
    /\ spawns' = [spawns EXCEPT !.tasks[t].pc = "leased"]
    /\ UNCHANGED <<reaper, parseVars, exchange, config, resp, indexVars, executor_pod_queue,
                   executor_pod_queue_spawning_count,
                   executor_pod_queue_target_length, spawn_tasks, deleted, calls>>

\* executor_pod: the awaited spawn_executor_pod raised, and so does execute
lease_failed(t) ==
    /\ spawns.tasks[t].owner = "lease"
    /\ spawns.tasks[t].pc = "failed"
    /\ spawns' = [spawns EXCEPT !.tasks[t].pc = "raised"]
    /\ resp' = Response("executed", <<>>, <<>>, 500, spawns.tasks[t].exception,
                        None, FALSE)
    /\ UNCHANGED <<reaper, parseVars, exchange, config, indexVars, poolVars>>

\* the task that runs spawn_executor_pod is cancelled at an await (kubectl
\* get, create or wait, or the wait between two attempts): CancelledError
\* is no Exception, so the except clause and its delete are passed by, and
\* it is no RuntimeError, so no attempt follows.  A create that was
\* awaited has reached the cluster (sent) or not.  A fill task that awaits
\* the call leaves its loop through the finally, which decrements the
\* counter
spawn_cancel(t, sent) ==
    /\ spawns.tasks[t].pc \in {"get", "create", "wait", "backoff"}
    /\ spawns' = [spawns EXCEPT
                    !.tasks[t] =
                       [@ EXCEPT !.pc = "cancelled", !.owner = "",
                                 !.exception = "CancelledError",
                                 !.made = IF spawns.tasks[t].pc = "create" /\ sent
                                          THEN @ \cup {spawn_name(t)} ELSE @]]
    /\ IF spawns.tasks[t].owner = "fill"
       THEN /\ executor_pod_queue_spawning_count' = executor_pod_queue_spawning_count - 1
            /\ spawn_tasks' = spawn_tasks - 1
       ELSE UNCHANGED <<executor_pod_queue_spawning_count, spawn_tasks>>
    /\ UNCHANGED <<reaper, parseVars, exchange, config, resp, indexVars, executor_pod_queue,
                   executor_pod_queue_target_length, fill_tasks, pods, deleted,
                   calls, leases>>

\* the fill task that awaits a call of spawn_executor_pod is cancelled:
\* the finally of its loop decrements the counter and the task ends; the
\* call is a task of its own (create_task) and goes on, awaited by nobody
fill_cancel(t) ==
    /\ t \in FillAwaited
    /\ spawns' = [spawns EXCEPT !.tasks[t].owner = ""]
    /\ executor_pod_queue_spawning_count' = executor_pod_queue_spawning_count - 1
    /\ spawn_tasks' = spawn_tasks - 1
    /\ UNCHANGED <<reaper, parseVars, exchange, config, resp, indexVars, executor_pod_queue,
                   executor_pod_queue_target_length, fill_tasks, pods, deleted,
                   calls, leases>>

(***************************************************************************)
(* One attempt of execute inside the pod's scope, request by request       *)
(* (kubernetes_code_executor.py).  The tasks of asyncio.gather run on      *)
(* their own: a task goes on after the gather has raised for another one,  *)
(* and finds the client closed.  log holds the requests in the order they  *)
(* were sent and answered, and the creation of the delete task.            *)
(***************************************************************************)
\* the paths of the input files of an execute request
Inputs == {"/workspace/in1.txt", "/workspace/in2.txt"}

Event(e, x) == [e |-> e, x |-> x]

\* no attempt is inside the scope
NoExchange ==
    [pc |-> "idle", inputs |-> {}, persistent_workspace |-> FALSE,
     puts |-> [f \in Inputs |-> "none"], post |-> "none", to_collect |-> {},
     gets |-> [path \in Paths |-> "none"], closed |-> FALSE, log |-> <<>>]

\* async with self.executor_pod() as executor_pod, httpx.AsyncClient() as
\* client: the gather of the upload_file tasks is awaited
exchange_enter(inputs, persistent_workspace) ==
    /\ exchange.pc = "idle"
    /\ exchange' = [exchange EXCEPT !.pc = "staging", !.inputs = inputs,
                       !.persistent_workspace = persistent_workspace]
    /\ UNCHANGED <<reaper, parseVars, spawns, config, resp, indexVars, poolVars>>

\* the scope is left: the client is closed (AsyncClient.__aexit__), then
\* the finally of executor_pod creates the delete task
exchange_leave(x, outcome) ==
    [x EXCEPT !.pc = outcome, !.closed = TRUE,
              !.log = Append(@, Event("DELETE", ""))]

\* upload_file: Storage.reader is entered and the PUT is sent; the task
\* ends without a request when the reader raises or the client is closed
put_send(f, readable) ==
    /\ f \in exchange.inputs
    /\ exchange.puts[f] = "none"
    /\ exchange' = IF readable /\ ~ exchange.closed
                   THEN [exchange EXCEPT !.puts[f] = "sent",
                                         !.log = Append(@, Event("PUT", f))]
                   ELSE [exchange EXCEPT !.puts[f] = "failed"]
    /\ UNCHANGED <<reaper, parseVars, spawns, config, resp, indexVars, poolVars>>

\* upload_file: the PUT is answered, or it raises
put_done(f, ok) ==
    /\ exchange.puts[f] = "sent"
    /\ exchange' = IF ok
                   THEN [exchange EXCEPT !.puts[f] = "done",
                                         !.log = Append(@, Event("PUT done", f))]
                   ELSE [exchange EXCEPT !.puts[f] = "failed"]
    /\ UNCHANGED <<reaper, parseVars, spawns, config, resp, indexVars, poolVars>>

\* the mutant of staged: the gather returns once every PUT is sent
StagedWhenSent(puts, inputs) == \A f \in inputs : puts[f] \in {"sent", "done"}

\* await asyncio.gather(*(upload_file(...) ...)) returns: every task has
\* returned
staged(puts, inputs) == \A f \in inputs : puts[f] = "done"

\* the gather of the stagings returns and POST /execute is sent, or it
\* raises with the exception of a task and the scope is left
exchange_post ==
    /\ exchange.pc = "staging"
    /\ \/ /\ staged(exchange.puts, exchange.inputs)
          /\ exchange' = [exchange EXCEPT !.pc = "posting", !.post = "sent",
                                          !.log = Append(@, Event("POST", ""))]
       \/ /\ \E f \in exchange.inputs : exchange.puts[f] = "failed"
          /\ exchange' = exchange_leave(exchange, "raised")
    /\ UNCHANGED <<reaper, parseVars, spawns, config, resp, indexVars, poolVars>>

\* POST /execute is answered with the files the run changed and the gather
\* of the download_file tasks is awaited, or it raises and the scope is left
post_return(ok, response_files) ==
    /\ exchange.pc = "posting"
    /\ exchange' =
          IF ok
          THEN [exchange EXCEPT
                   !.pc = "harvesting", !.post = "returned",
                   !.to_collect = files_to_collect(exchange.persistent_workspace,
                                                   response_files),
                   !.log = Append(@, Event("POST returned", ""))]
          ELSE exchange_leave([exchange EXCEPT !.post = "failed"], "raised")
    /\ UNCHANGED <<reaper, parseVars, spawns, config, resp, indexVars, poolVars>>

\* download_file: Storage.writer is entered and the GET is sent; the task
\* ends without a request when the writer raises or the client is closed
get_send(path, writable) ==
    /\ path \in exchange.to_collect
    /\ exchange.gets[path] = "none"
    /\ exchange' = IF writable /\ ~ exchange.closed
                   THEN [exchange EXCEPT !.gets[path] = "sent",
                                         !.log = Append(@, Event("GET", path))]
                   ELSE [exchange EXCEPT !.gets[path] = "failed"]
    /\ UNCHANGED <<reaper, parseVars, spawns, config, resp, indexVars, poolVars>>

\* download_file: the file is streamed and registered, or the task raises
get_done(path, ok) ==
    /\ exchange.gets[path] = "sent"
    /\ exchange' = [exchange EXCEPT !.gets[path] = IF ok THEN "done" ELSE "failed"]
    /\ UNCHANGED <<reaper, parseVars, spawns, config, resp, indexVars, poolVars>>

\* the gather of the harvests returns, or raises with the exception of a
\* task: the Result is returned or the exception raised, and the scope is
\* left
exchange_return ==
    /\ exchange.pc = "harvesting"
    /\ \/ /\ \A path \in exchange.to_collect : exchange.gets[path] = "done"
          /\ exchange' = exchange_leave(exchange, "returned")
       \/ /\ \E path \in exchange.to_collect : exchange.gets[path] = "failed"
          /\ exchange' = exchange_leave(exchange, "raised")
    /\ UNCHANGED <<reaper, parseVars, spawns, config, resp, indexVars, poolVars>>

(***************************************************************************)
(* The normalisation of a request's keys (http_server.py).  A string is a  *)
(* sequence of characters.  A JSON value is a number n, a list or a dict;   *)
(* v holds a dict's (key, value) items in insertion order and a list's     *)
(* items, each under the empty key.                                        *)
(***************************************************************************)
Num(n) == [t |-> "num", n |-> n, v |-> <<>>]
List(items) == [t |-> "list", n |-> 0,
                v |-> [i \in 1..Len(items) |-> <<<<>>, items[i]>>]]
Dict(items) == [t |-> "dict", n |-> 0, v |-> items]

\* str.lower() on the letters the keys below use
ToLower == [ch \in {"C", "S", "I", "B"} |->
               CASE ch = "C" -> "c" [] ch = "S" -> "s" [] ch = "I" -> "i"
                 [] ch = "B" -> "b"]
\* [A-Z]
IsUpper(ch) == ch \in DOMAIN ToLower
lower(ch) == IF IsUpper(ch) THEN ToLower[ch] ELSE ch

RECURSIVE CamelFrom(_, _)
\* _CAMEL_RE.sub("_", name).lower(), from position i on: an underscore goes
\* in front of every capital that is not the first character
CamelFrom(name, i) ==
    IF i > Len(name) THEN <<>>
    ELSE (IF i > 1 /\ IsUpper(name[i]) THEN <<"_", lower(name[i])>>
          ELSE <<lower(name[i])>>) \o CamelFrom(name, i + 1)

camel_to_snake(name) == CamelFrom(name, 1)

ALIASES ==
    (<<"s", "o", "u", "r", "c", "e", "C", "o", "d", "e">> :>
         <<"s", "o", "u", "r", "c", "e", "_", "c", "o", "d", "e">>)
    @@ (<<"c", "o", "d", "e">> :>
         <<"s", "o", "u", "r", "c", "e", "_", "c", "o", "d", "e">>)
    @@ (<<"t", "i", "m", "e", "o", "u", "t", "S", "e", "c", "o", "n", "d", "s">> :>
         <<"t", "i", "m", "e", "o", "u", "t">>)
    @@ (<<"l", "i", "m", "i", "t", "D", "o", "w", "n", "l", "o", "a", "d", "s">> :>
         <<"l", "i", "m", "i", "t">>)

\* out[k2] = v: a key the dict has keeps its place and gets the value, a new
\* key goes last
DictSet(items, k2, v) ==
    IF \E i \in 1..Len(items) : items[i][1] = k2
    THEN [i \in 1..Len(items) |-> IF items[i][1] = k2 THEN <<k2, v>> ELSE items[i]]
    ELSE Append(items, <<k2, v>>)

RECURSIVE canonicalise(_)
RECURSIVE CanonItems(_, _, _)
\* the loop of canonicalise over obj.items(), from item i on
CanonItems(items, i, out) ==
    IF i > Len(items) THEN out
    ELSE LET k == items[i][1]
             k2 == IF k \in DOMAIN ALIASES THEN ALIASES[k] ELSE camel_to_snake(k)
         IN  CanonItems(items, i + 1, DictSet(out, k2, canonicalise(items[i][2])))

canonicalise(obj) ==
    IF obj.t = "dict" THEN Dict(CanonItems(obj.v, 1, <<>>))
    ELSE IF obj.t = "list"
    THEN List([i \in 1..Len(obj.v) |-> canonicalise(obj.v[i][2])])
    ELSE obj

RECURSIVE Value(_)
\* what == compares: a dict is its keys with their values (m), whatever the
\* order of its items; a list is its items in order (l)
Value(obj) ==
    [t |-> obj.t,
     n |-> obj.n,
     m |-> IF obj.t = "dict"
           THEN [k \in {obj.v[i][1] : i \in 1..Len(obj.v)} |->
                   Value(obj.v[CHOOSE i \in 1..Len(obj.v) : obj.v[i][1] = k][2])]
           ELSE <<>>,
     l |-> IF obj.t = "list"
           THEN [i \in 1..Len(obj.v) |-> Value(obj.v[i][2])]
           ELSE <<>>]

\* keys a request can use
PayloadKeys ==
    { <<"c", "o", "d", "e">>,
      <<"C", "o", "d", "e">>,
      <<"s", "o", "u", "r", "c", "e", "C", "o", "d", "e">>,
      <<"s", "o", "u", "r", "c", "e", "_", "c", "o", "d", "e">>,
      <<"c", "h", "a", "t", "I", "d">>,
      <<"c", "h", "a", "t", "_", "i", "d">>,
      <<"r", "e", "q", "u", "e", "s", "t", "B", "o", "d", "y">> }

\* the values of a key: a number, a dict or a list holding a dict
PayloadValues ==
    {Num(1), Num(2)}
    \cup {Dict(<<<<k, Num(1)>>>>) : k \in PayloadKeys}
    \cup {List(<<Num(1), Dict(<<<<k, Num(2)>>>>)>>) : k \in PayloadKeys}

\* the JSON values a request body can hold: a dict of one or two keys, a list
Payloads ==
    {Dict(<<<<k, v>>>>) : k \in PayloadKeys, v \in PayloadValues}
    \cup {Dict(<<<<ks[1], Num(1)>>, <<ks[2], Num(2)>>>>) :
             ks \in {p \in PayloadKeys \X PayloadKeys : p[1] # p[2]}}
    \cup {List(<<v>>) : v \in PayloadValues}

\* step 4 of the execute handler, payload = canonicalise(payload), applied
\* to a payload up to two times
execute_canonicalise ==
    /\ passes < 2
    /\ payload' = canonicalise(payload)
    /\ passes' = passes + 1
    /\ UNCHANGED <<reaper, config, resp, indexVars, poolVars, taskVars>>

(***************************************************************************)
(* The specifications.                                                     *)
(***************************************************************************)
\* file_size_limit of Config in bytes: the default "1Gi", which is the
\* number of the upload handler's size test, and a smaller quantity
FileSizeLimits == {UploadCap - 1, UploadCap}

Configs ==
    [public_spawn_enabled : BOOLEAN,
     internal_host_allowlist : SUBSET InternalHosts,
     internal_ip_allowlist : SUBSET Cidrs,
     global_max_downloads : 0..MaxGlobal,
     file_size_limit : FileSizeLimits,
     require_chat_id : BOOLEAN]

\* the deployments the store is checked under: the guard open, either global
\* default, either file_size_limit, the default require_chat_id
StoreConfigs ==
    {cfg \in Configs : /\ cfg.public_spawn_enabled
                       /\ cfg.internal_host_allowlist = {}
                       /\ cfg.internal_ip_allowlist = {}
                       /\ cfg.require_chat_id}

\* the deployments the index and the pool are checked under: the guard open,
\* either global default, the default file_size_limit
IndexConfigs == {cfg \in StoreConfigs : cfg.file_size_limit = UploadCap}

\* executor_pod_queue_target_length of Config
DefaultTargetLength == 5

\* the database and the store of a new deployment
InitIndex ==
    /\ files = <<>>
    /\ blobs = <<>>
    /\ allocated = {}
    /\ pending = NoHarvest
    /\ now = 0
    /\ reg = <<>>
    /\ hist = <<>>
    /\ resp = Response("none", <<>>, <<>>, 0, "", None, FALSE)

\* KubernetesCodeExecutor.__init__
InitPool ==
    /\ executor_pod_queue = <<>>
    /\ executor_pod_queue_spawning_count = 0
    /\ fill_tasks = 0
    /\ spawn_tasks = 0
    /\ pods = 0
    /\ deleted = {}
    /\ calls = [c \in Calls |-> Call("idle", 0, 1, "", "", 0)]
    /\ leases = [pod \in 1..MaxPods |-> 0]
    /\ spawns = NoSpawns
    /\ exchange = NoExchange

\* no request body is being normalised
InitParse ==
    /\ payload = Dict(<<>>)
    /\ passes = 0

\* the index and its handlers; the pool is left alone
Init ==
    /\ config \in IndexConfigs
    /\ executor_pod_queue_target_length = DefaultTargetLength
    /\ InitIndex
    /\ InitPool
    /\ InitReaper
    /\ InitParse

\* what a snippet of these runs leaves in its workspace: one file
OneFile == {("/workspace/a.txt" :> data) : data \in OneContent}

\* Hashes has one handle, for one stored file: an execute request with
\* persistent_workspace arrives while the handle is left for the file it
\* writes, and an upload while no execute request is waiting for it
Next ==
    \/ \E host \in HostHeaders, client \in ClientIps, chat_id \in Owners,
          filename \in Filenames, max_downloads \in MaxDownloadsInputs,
          expiry \in ExpiryInputs, data \in OneContent, hash \in Hashes :
          /\ ~ pending.running
          /\ upload_file(host, client, chat_id, filename, max_downloads,
                         expiry[1], expiry[2], data, hash)
    \/ \E key \in Keys : download(key)
    \/ \E key \in Keys : expire_file(key)
    \/ periodic_cleanup
    \/ \E key \in Keys : reader(key)
    \/ \E chat_id \in Owners, wrote \in OneFile :
          allocated = {} /\ execute_post(chat_id, TRUE, wrote)
    \/ \E file_path \in Paths, hash \in Hashes : download_file(file_path, hash)
    \/ \E max_downloads \in MaxDownloadsInputs, expires_days \in ExpiresDaysInputs :
          execute_register(max_downloads, expires_days)
    \/ Tick

Spec == Init /\ [][Next]_vars

\* the deployments the pool is checked under: the guard open
PoolConfigs == {cfg \in IndexConfigs : cfg.global_max_downloads = 0}
\* where the pool's requests come from
PoolHosts == {"example.com"}
PoolClientIps == {"8.8.8.8"}

\* the pool under concurrent execute requests that name no input file and
\* whose runs change no file: the index is left alone
InitPoolSpec ==
    /\ config \in PoolConfigs
    /\ executor_pod_queue_target_length \in 0..MaxTarget
    /\ InitIndex
    /\ InitPool
    /\ InitReaper
    /\ InitParse

NextPool ==
    \/ \E c \in Calls, host \in PoolHosts, client \in PoolClientIps,
          body \in Bodies :
          execute(c, host, client, body)
    \/ \E c \in Calls : executor_pod(c)
    \/ \E c \in Calls : executor_pod_spawned(c)
    \/ \E c \in Calls : executor_pod_spawn_failed(c)
    \/ fill_executor_pod_queue
    \/ fill_spawned
    \/ fill_spawn_failed
    \/ \E c \in Calls : execute_step(c)
    \/ \E c \in Calls : execute_return(c)
    \/ \E c \in Calls, exception \in ScopeExceptions : execute_raise(c, exception)

SpecPool == InitPoolSpec /\ [][NextPool]_vars

\* the pool under execute requests that may be cancelled at every await,
\* while every spawn of a fill task succeeds
NextCancel ==
    \/ \E c \in Calls, host \in PoolHosts, client \in PoolClientIps :
          execute(c, host, client, "json")
    \/ \E c \in Calls : executor_pod(c)
    \/ \E c \in Calls : executor_pod_spawned(c)
    \/ fill_executor_pod_queue
    \/ fill_spawned
    \/ \E c \in Calls : execute_step(c)
    \/ \E c \in Calls : execute_return(c)
    \/ \E c \in Calls : execute_raise(c, "RuntimeError")
    \/ \E c \in Calls : execute_cancel(c)

SpecCancel == InitPoolSpec /\ [][NextCancel]_vars

\* the pool while every spawn of a fill task succeeds: the event loop runs
\* every task it was given, so a created fill task starts and a spawn that
\* can return does return
NextRefill ==
    \/ \E c \in Calls, host \in PoolHosts, client \in PoolClientIps :
          execute(c, host, client, "json")
    \/ \E c \in Calls : executor_pod(c)
    \/ \E c \in Calls : executor_pod_spawned(c)
    \/ fill_executor_pod_queue
    \/ fill_spawned
    \/ \E c \in Calls : execute_step(c)
    \/ \E c \in Calls : execute_return(c)
    \/ \E c \in Calls : execute_raise(c, "HTTPError")

SpecRefill ==
    /\ InitPoolSpec
    /\ [][NextRefill]_vars
    /\ WF_vars(fill_executor_pod_queue)
    /\ WF_vars(fill_spawned)

\* the guard of the two spawning endpoints under every deployment
InitGuard ==
    /\ config \in Configs
    /\ executor_pod_queue_target_length = DefaultTargetLength
    /\ InitIndex
    /\ InitPool
    /\ InitReaper
    /\ InitParse

NextGuard ==
    \/ \E host \in HostHeaders, client \in ClientIps, chat_id \in Owners,
          filename \in Filenames, max_downloads \in MaxDownloadsInputs,
          expiry \in ExpiryInputs, data \in OneContent, hash \in Hashes :
          upload_file(host, client, chat_id, filename, max_downloads,
                      expiry[1], expiry[2], data, hash)
    \/ \E c \in Calls, host \in HostHeaders, client \in ClientIps,
          body \in Bodies :
          execute(c, host, client, body)

SpecGuard == InitGuard /\ [][NextGuard]_vars

\* the two spawning endpoints under every deployment, with the lease an
\* admitted execute request takes: a queued pod or a spawned one, and the
\* fill task it schedules
NextRejected ==
    \/ \E host \in HostHeaders, client \in ClientIps, chat_id \in Owners,
          filename \in Filenames, data \in OneContent, hash \in Hashes :
          upload_file(host, client, chat_id, filename, None, None, None,
                      data, hash)
    \/ \E c \in Calls, host \in HostHeaders, client \in ClientIps :
          execute(c, host, client, "json")
    \/ \E c \in Calls : executor_pod(c)
    \/ \E c \in Calls : executor_pod_spawned(c)

SpecRejected == InitGuard /\ [][NextRejected]_vars

\* the store and the index under uploads of every content and downloads,
\* under either file_size_limit; the clock stands still
InitUpload ==
    /\ config \in StoreConfigs
    /\ executor_pod_queue_target_length = DefaultTargetLength
    /\ InitIndex
    /\ InitPool
    /\ InitReaper
    /\ InitParse

\* the bodies of the uploads: every content the size test lets through, and
\* one content of every greater length
UploadBodies ==
    {s \in Contents : Len(s) <= UploadCap \/ \A i \in 1..Len(s) : s[i] = 0}

NextUpload ==
    \/ \E host \in PoolHosts, client \in PoolClientIps, chat_id \in Owners,
          filename \in Filenames, max_downloads \in MaxDownloadsInputs,
          data \in UploadBodies, hash \in Hashes :
          upload_file(host, client, chat_id, filename, max_downloads,
                      None, None, data, hash)
    \/ \E key \in Owners \X Hashes \X Filenames : download(key)

SpecUpload == InitUpload /\ [][NextUpload]_vars

\* the contents the snippets of the harvest runs write: an empty file, one
\* byte, and MaxBytes bytes that alternate
Written ==
    {s \in Contents : /\ Len(s) \in {0, 1, MaxBytes}
                      /\ \A i \in 1..Len(s) : s[i] = i % 2}
\* what a snippet leaves in its workspace: no file, one file or two
WorkspacesWritten == UNION {[paths -> Written] : paths \in SUBSET Paths}

\* the store and the index under execute requests that write up to two
\* files, with and without persistent_workspace, and downloads and stagings
\* of what they stored; no execute request arrives once one has stored a
\* file, and the clock stands still
NextHarvest ==
    \/ \E chat_id \in Owners, persistent_workspace \in BOOLEAN,
          wrote \in WorkspacesWritten :
          allocated = {} /\ execute_post(chat_id, persistent_workspace, wrote)
    \/ \E file_path \in Paths, hash \in StoreHashes : download_file(file_path, hash)
    \/ \E max_downloads \in MaxDownloadsInputs :
          execute_register(max_downloads, None)
    \/ \E key \in StoreKeys : download(key)
    \/ \E key \in StoreKeys : reader(key)

SpecHarvest == Init /\ [][NextHarvest]_vars

\* the deployments with either require_chat_id
ChatIdConfigs ==
    {cfg \in Configs : /\ cfg.public_spawn_enabled
                       /\ cfg.internal_host_allowlist = {}
                       /\ cfg.internal_ip_allowlist = {}
                       /\ cfg.global_max_downloads = 0
                       /\ cfg.file_size_limit = UploadCap}
\* the chat_id of an execute request: the empty string is a str, which
\* ExecuteRequest accepts
RequestChats == {""} \cup Owners

InitFailing ==
    /\ config \in ChatIdConfigs
    /\ executor_pod_queue_target_length = DefaultTargetLength
    /\ InitIndex
    /\ InitPool
    /\ InitReaper
    /\ InitParse

\* execute requests with and without a chat_id whose harvests may fail or
\* be cancelled, and downloads of what they stored; no execute request
\* arrives once one has stored a file, and the clock stands still
NextFailing ==
    \/ \E chat_id \in RequestChats, persistent_workspace \in BOOLEAN,
          wrote \in WorkspacesWritten :
          allocated = {} /\ execute_post(chat_id, persistent_workspace, wrote)
    \/ \E file_path \in Paths, hash \in StoreHashes : download_file(file_path, hash)
    \/ \E file_path \in Paths, hash \in StoreHashes, exception \in HarvestExceptions :
          download_file_failed(file_path, hash, exception)
    \/ \E max_downloads \in MaxDownloadsInputs :
          execute_register(max_downloads, None)
    \/ \E key \in StoreKeys : download(key)

SpecFailing == InitFailing /\ [][NextFailing]_vars

\* the calls of spawn_executor_pod made by executor_pod on an empty queue
\* and by the fill tasks it creates, under every outcome of the cluster
NextSpawn ==
    \/ \E t \in Spawners, owner \in {"fill", "lease"} : spawn_executor_pod(t, owner)
    \/ \E t \in Spawners : spawn_again(t)
    \/ \E t \in Spawners, outcome \in GetOutcomes : spawn_get(t, outcome)
    \/ \E t \in Spawners, ok \in BOOLEAN : spawn_create(t, ok)
    \/ \E t \in Spawners, ok \in BOOLEAN : spawn_wait(t, ok)
    \/ \E t \in Spawners, ok \in BOOLEAN : spawn_delete(t, ok)
    \/ \E t \in Spawners : fill_append(t)
    \/ \E t \in Spawners : fill_log(t)
    \/ \E t \in Spawners : lease_spawned(t)
    \/ \E t \in Spawners : lease_failed(t)
    \/ fill_executor_pod_queue

SpecSpawn == InitPoolSpec /\ [][NextSpawn]_vars

\* the calls of spawn_executor_pod with the cancellation of the task that
\* runs a call and of the fill task that awaits it
NextOrphan ==
    \/ NextSpawn
    \/ \E t \in Spawners, sent \in BOOLEAN : spawn_cancel(t, sent)
    \/ \E t \in Spawners : fill_cancel(t)

SpecOrphan == InitPoolSpec /\ [][NextOrphan]_vars

\* one attempt of execute with up to two input files and up to two changed
\* files, under every outcome of its requests to the pod
NextExchange ==
    \/ \E inputs \in SUBSET Inputs, persistent_workspace \in BOOLEAN :
          exchange_enter(inputs, persistent_workspace)
    \/ \E f \in Inputs, readable \in BOOLEAN : put_send(f, readable)
    \/ \E f \in Inputs, ok \in BOOLEAN : put_done(f, ok)
    \/ exchange_post
    \/ \E ok \in BOOLEAN, response_files \in SUBSET Paths :
          post_return(ok, response_files)
    \/ \E path \in Paths, writable \in BOOLEAN : get_send(path, writable)
    \/ \E path \in Paths, ok \in BOOLEAN : get_done(path, ok)
    \/ exchange_return

SpecExchange == InitPoolSpec /\ [][NextExchange]_vars

\* max_downloads: int = Form(None) takes every integer: a negative one too
SignedMaxDownloadsInputs == {Some(0 - 1), Some(1)}

\* the index under uploads whose max_downloads may be negative, downloads,
\* expirations, the sweep and the clock
NextSigned ==
    \/ \E chat_id \in Owners, filename \in Filenames,
          max_downloads \in SignedMaxDownloadsInputs,
          expires_days \in ExpiresDaysInputs, hash \in Hashes :
          upload_file("example.com", "8.8.8.8", chat_id, filename, max_downloads,
                      expires_days, None, <<1>>, hash)
    \/ \E key \in Keys : download(key)
    \/ \E key \in Keys : expire_file(key)
    \/ periodic_cleanup
    \/ Tick

SpecSigned == Init /\ [][NextSigned]_vars

\* a deployment started over the database and the store of an earlier run:
\* a file uploaded one day before, with expires_days = 1 and a limit of one
\* download or none
InitSweep ==
    /\ config \in PoolConfigs
    /\ executor_pod_queue_target_length = DefaultTargetLength
    /\ InitPool
    /\ InitReaper
    /\ InitParse
    /\ \E key \in Keys, max_downloads \in {Some(0), Some(1)} :
          /\ files = register(config, <<>>, key, max_downloads, Some(1),
                              0 - TicksPerDay)
          /\ reg = (key :> Registration(max_downloads, Some(1), None,
                                        0 - TicksPerDay))
          /\ hist = (key :> NoHistory)
          /\ blobs = (key :> <<1>>)
          /\ allocated = {key[2]}
    /\ pending = NoHarvest
    /\ now = 0
    /\ resp = Response("none", <<>>, <<>>, 0, "", None, FALSE)

\* downloads, expirations and sweeps of that file, and uploads of further
\* files, while the clock runs
NextSweep ==
    \/ \E chat_id \in Owners, filename \in Filenames,
          max_downloads \in MaxDownloadsInputs, hash \in StoreHashes :
          upload_file("example.com", "8.8.8.8", chat_id, filename,
                      max_downloads, Some(1), None, <<1>>, hash)
    \/ \E key \in Keys : download(key)
    \/ \E key \in Keys : expire_file(key)
    \/ periodic_cleanup
    \/ Tick

SpecSweep == InitSweep /\ [][NextSweep]_vars

\* the names of environment variables a client can send
EnvNames == {<<"c", "i">>, <<"C", "I">>, <<"c", "o", "d", "e">>, <<"c", "_", "i">>}
\* the workspace paths a client can send as keys of files
WorkspacePaths ==
    {<<"/", "a">>, <<"/", "a", "B">>, <<"/", "S", "b">>, <<"/", "a", "_", "b">>}
\* the names a client can send the source under
SourceNames ==
    {<<"c", "o", "d", "e">>,
     <<"s", "o", "u", "r", "c", "e", "C", "o", "d", "e">>,
     <<"s", "o", "u", "r", "c", "e", "_", "c", "o", "d", "e">>}

\* the handles a request names its input file by
FileHandles == {Num(1), Num(2)}

\* the bodies of execute requests that name the source, one environment
\* variable and one input file
ExecutePayloads ==
    {Dict(<<<<source, Num(1)>>,
            <<<<"e", "n", "v">>, Dict(<<<<name, Num(1)>>>>)>>,
            <<<<"f", "i", "l", "e", "s">>, Dict(<<<<path, hash>>>>)>>>>) :
        source \in SourceNames, name \in EnvNames, path \in WorkspacePaths,
        hash \in FileHandles}

\* the keys of a dict
DictKeys(obj) == {obj.v[i][1] : i \in 1..Len(obj.v)}

\* ExecuteRequest.model_validate(payload), one dict field of it: the value
\* the payload holds under the field's name, the default {} without one
model_validate(obj, field) ==
    IF obj.t = "dict" /\ field \in DictKeys(obj)
    THEN obj.v[CHOOSE i \in 1..Len(obj.v) : obj.v[i][1] = field][2]
    ELSE Dict(<<>>)

\* canonicalise on the bodies of execute requests with env and files
InitNormalise ==
    /\ config \in PoolConfigs
    /\ executor_pod_queue_target_length = DefaultTargetLength
    /\ InitIndex
    /\ InitPool
    /\ InitReaper
    /\ payload \in ExecutePayloads
    /\ passes = 0

\* the limits the input file of the staged request is uploaded with
StagedMaxDownloads == {Some(0), Some(2), Some(3)}

\* one execute request that stages an uploaded file as its input, with the
\* attempts of its retry: the upload, the request, its lease, the staging,
\* the POST, a RuntimeError inside the pod's scope, the return
NextRestage ==
    \/ \E chat_id \in Owners, filename \in Filenames,
          max_downloads \in StagedMaxDownloads, hash \in Hashes :
          /\ \A c \in Calls : calls[c].pc = "idle"
          /\ upload_file("example.com", "8.8.8.8", chat_id, filename,
                         max_downloads, None, None, <<1>>, hash)
    \/ \E c \in Calls :
          /\ \A other \in Calls : calls[other].pc = "idle"
          /\ execute(c, "example.com", "8.8.8.8", "json")
    \/ \E c \in Calls : executor_pod(c)
    \/ \E c \in Calls : executor_pod_spawned(c)
    \/ \E c \in Calls, key \in Keys : execute_stage(c, key)
    \/ \E c \in Calls : calls[c].pc = "posting" /\ execute_step(c)
    \/ \E c \in Calls : execute_return(c)
    \/ \E c \in Calls : execute_raise(c, "RuntimeError")

SpecRestage == InitPoolSpec /\ [][NextRestage]_vars

\* the reaper over the file of an earlier run, with downloads of the file
\* and the clock
NextReaper ==
    \/ \E exception \in CleanupExceptions, updated \in BOOLEAN :
          periodic_cleanup_cycle(exception, updated)
    \/ periodic_cleanup_sleep
    \/ \E key \in Keys : download(key)
    \/ Tick

\* the event loop runs the reaper's task whenever it can run
SpecReaper ==
    /\ InitSweep
    /\ [][NextReaper]_vars
    /\ WF_vars(\E exception \in CleanupExceptions, updated \in BOOLEAN :
                   periodic_cleanup_cycle(exception, updated))
    /\ WF_vars(periodic_cleanup_sleep)

\* canonicalise on the payloads of execute requests
InitCanon ==
    /\ config \in PoolConfigs
    /\ executor_pod_queue_target_length = DefaultTargetLength
    /\ InitIndex
    /\ InitPool
    /\ InitReaper
    /\ payload \in Payloads
    /\ passes = 0

NextCanon == execute_canonicalise

SpecCanon == InitCanon /\ [][NextCanon]_vars

SpecNormalise == InitNormalise /\ [][NextCanon]_vars

(***************************************************************************)
(* The claims about the index and the download handler.                    *)
(***************************************************************************)
\* C1: for a record registered with a finite download limit k >= 1 and no
\* time expiry, of the N download requests served for its key (none of them
\* an expire call or an input staging) exactly min(N, k) were answered 200
\* and the other N - min(N, k) were answered 404.
C1_ExactlyMinSucceed ==
    \A key \in DOMAIN files :
        ( /\ RequestedLimit(key) >= 1
          /\ RequestedExpiry(key) = None
          /\ ~ hist[key].expired
          /\ hist[key].reads = 0 )
        => /\ hist[key].ok = Min(hist[key].all, RequestedLimit(key))
           /\ hist[key].nf = hist[key].all - hist[key].ok

\* a record with limit 2 has served three downloads: two 200 and one 404
C1_Witness ==
    \E key \in DOMAIN files :
        /\ RequestedLimit(key) = 2
        /\ RequestedExpiry(key) = None
        /\ ~ hist[key].expired
        /\ hist[key].reads = 0
        /\ hist[key].all = 3
        /\ hist[key].ok = 2
        /\ hist[key].nf = 1

\* C5: once a record was expired by expire, or its download limit is used
\* up, every later download of the key is answered 404 and every later
\* staging of it is refused, also after cleanup_expired_files has run, until
\* the key is registered again.
C5_ExpiredStaysExpired ==
    resp.dead =>
        /\ resp.op = "download" => resp.status = 404
        /\ resp.op = "stage" => resp.detail = "PermissionError"

\* a download of a record that was expired by expire, then swept by
\* cleanup_expired_files, is answered 404
C5_Witness ==
    /\ resp.op = "download"
    /\ resp.dead
    /\ resp.status = 404
    /\ hist[resp.key].expired
    /\ hist[resp.key].swept

\* C6 as amended: check_and_decrement on a record whose expires_at is set
\* and lies before now (expires_at < now) refuses the request (the download
\* is answered 404) and leaves remaining_downloads = 0, whatever it was
\* before, unlimited included.
C6_PastExpiryRefusedAndZeroed ==
    ( /\ resp.op \in {"download", "stage"}
      /\ resp.pre # None
      /\ The(resp.pre).expires_at # None
      /\ The(The(resp.pre).expires_at) < now )
    => /\ resp.op = "download" => resp.status = 404
       /\ resp.op = "stage" => resp.detail = "PermissionError"
       /\ files[resp.key].remaining = Some(0)

\* a download of an unlimited record past its expiry: 404, remaining now 0
C6_Witness ==
    /\ resp.op = "download"
    /\ resp.pre # None
    /\ The(resp.pre).expires_at # None
    /\ The(The(resp.pre).expires_at) < now
    /\ The(resp.pre).remaining = None
    /\ resp.status = 404
    /\ files[resp.key].remaining = Some(0)

\* C6 as claimed: the same for expires_at <= now
C6_Original ==
    ( /\ resp.op \in {"download", "stage"}
      /\ resp.pre # None
      /\ The(resp.pre).expires_at # None
      /\ The(The(resp.pre).expires_at) <= now )
    => /\ resp.op = "download" => resp.status = 404
       /\ resp.op = "stage" => resp.detail = "PermissionError"
       /\ files[resp.key].remaining = Some(0)

AskedUnlimited(key) ==
    \/ reg[key].max_downloads = Some(0)
    \/ reg[key].max_downloads = None /\ config.global_max_downloads = 0

\* the record has not been expired by expire and its expiry time, if any, has
\* not passed
NotExpired(key) ==
    /\ ~ hist[key].expired
    /\ RequestedExpiry(key) # None => now <= The(RequestedExpiry(key))

\* C8 as amended: register with max_downloads = 0, or with max_downloads
\* absent while global_max_downloads = 0, stores an unlimited record: until
\* the record is expired (by expire or by its expiry time) every download
\* and staging of it succeeds and remaining_downloads stays none.  With
\* max_downloads absent and global_max_downloads = g >= 1 the record is
\* stored with remaining_downloads = g.
C8_ZeroOrAbsentUnderZeroDefault ==
    \A key \in DOMAIN files :
        /\ (AskedUnlimited(key) /\ NotExpired(key))
              => /\ files[key].remaining = None
                 /\ hist[key].nf = 0
                 /\ hist[key].ok = hist[key].all
        /\ ( /\ reg[key].max_downloads = None
             /\ config.global_max_downloads >= 1
             /\ NotExpired(key)
             /\ hist[key].all = 0
             /\ hist[key].reads = 0 )
              => files[key].remaining = Some(config.global_max_downloads)

\* a record registered without max_downloads under global_max_downloads = 0
\* has served three downloads and is still unlimited
C8_Witness ==
    \E key \in DOMAIN files :
        /\ reg[key].max_downloads = None
        /\ config.global_max_downloads = 0
        /\ NotExpired(key)
        /\ hist[key].ok = 3
        /\ files[key].remaining = None

\* C8 as claimed: max_downloads = 0 or absent always stores an unlimited
\* record
C8_Original ==
    \A key \in DOMAIN files :
        (reg[key].max_downloads \in {None, Some(0)} /\ NotExpired(key))
           => /\ files[key].remaining = None
              /\ hist[key].nf = 0
              /\ hist[key].ok = hist[key].all

\* C10: a download of a key that has no record, of a record expired by its
\* expiry time or by expire, and of a record whose download limit is used up
\* all get the same response: status 404 with the body "File not found".
C10_SameNotFoundResponse ==
    ( /\ resp.op = "download"
      /\ \/ resp.pre = None
         \/ resp.dead
         \/ /\ resp.pre # None
            /\ The(resp.pre).expires_at # None
            /\ The(The(resp.pre).expires_at) < now )
    => /\ resp.status = 404
       /\ resp.detail = "File not found"

\* a download refused because the record's limit is used up (the record was
\* not expired by expire and has no expiry time) gets that response
C10_Witness ==
    /\ resp.op = "download"
    /\ resp.dead
    /\ ~ hist[resp.key].expired
    /\ The(resp.pre).expires_at = None
    /\ resp.status = 404
    /\ resp.detail = "File not found"

(***************************************************************************)
(* The claims about the pod pool.                                          *)
(***************************************************************************)
\* C2: no pod is handed to more than one attempt of execute: under every
\* interleaving of execute requests, their retries and the fill tasks, a pod
\* that was leased (popped from the queue, or spawned for the request) is
\* leased once, is held by at most one request, and is not in the queue.
C2_LeasedOnce ==
    /\ \A pod \in 1..MaxPods :
          /\ leases[pod] <= 1
          /\ leases[pod] >= 1 =>
                \A i \in 1..Len(executor_pod_queue) : executor_pod_queue[i] # pod
    /\ \A c, d \in Calls :
          (c # d /\ calls[c].pc \in InScope /\ calls[d].pc \in InScope)
             => calls[c].pod # calls[d].pod

\* a second attempt of one request and the first attempt of another hold
\* pods, both popped from the queue, while a pod is queued
C2_Witness ==
    \E c, d \in Calls :
        /\ c # d
        /\ calls[c].pc \in InScope
        /\ calls[c].attempt = 2
        /\ calls[d].pc \in InScope
        /\ calls[c].pod # calls[d].pod
        /\ executor_pod_queue # <<>>

\* C3: in every state reached by leases and fill tasks, the number of queued
\* pods plus the counter of spawns in flight is at most the target length.
C3_NeverOverProvisioned ==
    Len(executor_pod_queue) + executor_pod_queue_spawning_count
        <= executor_pod_queue_target_length

\* the pool at its target of 2 with one pod queued, one spawn in flight and
\* another fill task about to run
C3_Witness ==
    /\ executor_pod_queue_target_length = 2
    /\ Len(executor_pod_queue) = 1
    /\ executor_pod_queue_spawning_count = 1
    /\ spawn_tasks = 1
    /\ fill_tasks >= 1

\* C4: every pod leased by an attempt of execute has its delete issued when
\* the attempt leaves the pod's scope: a leased pod is either held by a
\* request inside the scope or has a delete issued, whether the attempt
\* returned or raised during staging, posting or harvesting.
C4_LeasedThenDeleted ==
    \A pod \in 1..MaxPods :
        leases[pod] >= 1 =>
            \/ pod \in deleted
            \/ \E c \in Calls : calls[c].pc \in InScope /\ calls[c].pod = pod

\* a request that raised during harvesting: the delete of its pod is issued
C4_Witness ==
    \E c \in Calls :
        /\ calls[c].pc = "raised"
        /\ calls[c].failed_at = "harvesting"
        /\ leases[calls[c].pod] = 1
        /\ calls[c].pod \in deleted

(***************************************************************************)
(* The claim about the origin guard.                                       *)
(***************************************************************************)
\* the host header is not on the host allow-list and the client address is
\* in none of the allow-listed networks
OutsideAllowLists(cfg, host, client) ==
    /\ host \notin cfg.internal_host_allowlist
    /\ \A cidr \in cfg.internal_ip_allowlist : ~ InNetwork(client, cidr)

\* C9: with public_spawn_enabled false, an execute or upload request whose
\* host header is not on the host allow-list and whose client address is in
\* none of the allow-listed networks is answered 403, whatever the
\* allow-lists are.
C9_OutsideRejected ==
    ( /\ resp.op \in {"execute", "upload"}
      /\ ~ config.public_spawn_enabled
      /\ OutsideAllowLists(config, resp.origin[1], resp.origin[2]) )
    => resp.status = 403

C18_UnregisteredExpireNotFound ==
    [][(resp'.op = "expire" /\ resp'.pre = None)
          => (resp'.status = 404 /\ files' = files)]_vars

\* expire of a registered hash under another filename was answered 404 while
\* the hash's record is still unlimited
C18_Witness ==
    /\ resp.op = "expire"
    /\ resp.pre = None
    /\ resp.status = 404
    /\ \E k \in DOMAIN files :
          /\ k[2] = resp.key[2]
          /\ k[3] # resp.key[3]
          /\ files[k].remaining = None

(***************************************************************************)
(* The claim about canonicalise.                                           *)
(***************************************************************************)
\* C19: for every JSON payload x, canonicalise(canonicalise(x)) =
\* canonicalise(x): a payload that was canonicalised once is left as it is
\* by canonicalise.
C19_CanonicaliseIdempotent ==
    passes >= 1 => Value(canonicalise(payload)) = Value(payload)

(***************************************************************************)
(* The claim about an execute request whose body is no JSON.               *)
(***************************************************************************)
\* C20: an execute request that passes the guard and whose body cannot be
\* parsed as JSON is answered 422, and no pod is leased for it.
C20_BrokenBodyUnprocessable ==
    ( /\ resp.op = "execute"
      /\ resp.body = "broken"
      /\ resp.status # 403 )
    => /\ resp.status = 422
       /\ \A c \in Calls : calls[c].failed_at = "parsing" => calls[c].pod = 0

(***************************************************************************)
(* The claim about the refill of the queue.                                *)
(***************************************************************************)
\* a pod was leased
Leased == \E pod \in 1..MaxPods : leases[pod] >= 1
\* C16: after any lease, while the spawns of the fill tasks succeed and no
\* further lease arrives, the queue of Ready pods gets back to the target
\* length: from every state after a lease the queue reaches length T.
C16_QueueRefilled ==
    Leased ~> (Len(executor_pod_queue) = executor_pod_queue_target_length)

\* after two leases the queue is back at its target of 2 and no fill task
\* or spawn is left
C16_Witness ==
    /\ executor_pod_queue_target_length = 2
    /\ Len(executor_pod_queue) = 2
    /\ \E p, q \in 1..MaxPods : p # q /\ leases[p] = 1 /\ leases[q] = 1
    /\ fill_tasks = 0
    /\ spawn_tasks = 0

(***************************************************************************)
(* The claims about the bytes of uploads and of harvested files.           *)
(***************************************************************************)
\* C12: an upload of the bytes B under (chat_id, filename) that is answered
\* with the handle H is followed, when the next request is the download of
\* (chat_id, H, filename), by the answer 200 whose body is exactly B.
C12_UploadThenDownloadSameBytes ==
    [][( /\ resp.op = "upload"
         /\ resp.status = 200
         /\ resp'.op = "download"
         /\ resp'.key = resp.key )
          => (resp'.status = 200 /\ resp'.body = resp.sent)]_vars

\* the first download of an uploaded file of MaxBytes bytes, more than one
\* chunk with a short last chunk, was answered 200 with those bytes
C12_Witness ==
    /\ resp.op = "download"
    /\ resp.status = 200
    /\ Len(resp.body) > ChunkSize
    /\ Len(resp.body) % ChunkSize # 0
    /\ resp.body[1] # resp.body[2]
    /\ hist[resp.key].all = 1
    /\ hist[resp.key].reads = 0

\* C17: an upload whose body has more bytes than the configured cap
\* (config.file_size_limit) is answered 413 and leaves no record.
C17_OverConfiguredCapRejected ==
    ( /\ resp.op = "upload"
      /\ resp.status # 403
      /\ Len(resp.sent) > config.file_size_limit )
    => /\ resp.status = 413
       /\ resp.key \notin DOMAIN files

\* the key result.files gives for a path
ResultKey(path) == <<resp.chat_id, resp.files[path], basename(path)>>

\* C13: when an execute request with persistent_workspace is answered, every
\* handle of the returned files map has a record under the request's
\* chat_id and the basename of the file's path, and a blob in the store: a
\* staging or a download of the key passes the index and delivers the bytes
\* the snippet wrote at that path.
C13_ReturnedHandlesStored ==
    (resp.op = "executed" /\ resp.persistent_workspace)
    => \A path \in DOMAIN resp.files :
          /\ ResultKey(path) \in DOMAIN files
          /\ ResultKey(path) \in DOMAIN blobs
          /\ check_and_decrement(files, ResultKey(path), now).raised = "none"
          /\ file_streamer(blobs[ResultKey(path)], <<>>) = resp.wrote[path]

\* an execute request with persistent_workspace whose snippet wrote two
\* files of different bytes, one under a directory, was answered with two
\* handles
C13_Witness ==
    /\ resp.op = "executed"
    /\ resp.persistent_workspace
    /\ DOMAIN resp.files = Paths
    /\ resp.files["/workspace/a.txt"] # resp.files["/workspace/out/b.txt"]
    /\ Len(resp.wrote["/workspace/a.txt"]) = MaxBytes
    /\ Len(resp.wrote["/workspace/out/b.txt"]) = 1
    /\ ResultKey("/workspace/out/b.txt")[3] = "b.txt"
    /\ blobs[ResultKey("/workspace/out/b.txt")] = resp.wrote["/workspace/out/b.txt"]

C15_HarvestedWithRequestLimit ==
    /\ ( /\ resp.op = "executed"
         /\ resp.persistent_workspace
         /\ resp.max_downloads # None
         /\ The(resp.max_downloads) >= 1 )
       => \A path \in DOMAIN resp.files :
             /\ files[ResultKey(path)].remaining = resp.max_downloads
             /\ resp.files_metadata[path].remaining = resp.max_downloads
    /\ \A key \in DOMAIN files :
          ( /\ ~ pending.running
            /\ reg[key].max_downloads # None
            /\ The(reg[key].max_downloads) >= 1
            /\ hist[key].reads = 0 )
          => /\ hist[key].ok = Min(hist[key].all, The(reg[key].max_downloads))
             /\ hist[key].nf = hist[key].all - hist[key].ok

\* two files harvested by a request with max_downloads = 2: one has served
\* three downloads, two answered 200 and the third 404, the other none
C15_Witness ==
    /\ ~ pending.running
    /\ \E key, other \in DOMAIN files :
          /\ key # other
          /\ reg[key].max_downloads = Some(2)
          /\ hist[key].all = 3
          /\ hist[key].ok = 2
          /\ hist[key].nf = 1
          /\ files[other].remaining = Some(2)

(***************************************************************************)
(* The claims about cleanup_expired_files and about input stagings.        *)
(***************************************************************************)
\* C23: after cleanup_expired_files has run, every record whose expires_at
\* is set and is not after now has remaining_downloads = 0, the records
\* that were unlimited before the sweep included.
C23_SweepZeroesExpired ==
    resp.op = "cleanup"
    => \A key \in DOMAIN files :
          (files[key].expires_at # None /\ The(files[key].expires_at) <= now)
             => files[key].remaining = Some(0)

\* C25: a handle staged as an input of execute goes through
\* check_and_decrement: the staging of a record with a finite limit that is
\* neither expired nor used up leaves remaining_downloads one lower, and
\* the staging of a key with no record, of an expired record and of a
\* record whose limit is used up raises, which fails the execute request.
C25_StagingConsumesOneDownload ==
    resp.op = "stage"
    => /\ resp.pre = None
             => (resp.status = 500 /\ resp.detail = "FileNotFoundError")
       /\ resp.pre # None
             => LET row == The(resp.pre)
                    expired == row.expires_at # None /\ The(row.expires_at) < now
                IN  /\ (expired \/ resp.dead \/ row.remaining = Some(0))
                          => (resp.status = 500 /\ resp.detail = "PermissionError")
                    /\ ( /\ ~ expired
                         /\ row.remaining # None
                         /\ The(row.remaining) >= 1
                         /\ (row.expires_at # None => The(row.expires_at) > now) )
                          => /\ resp.status = 0
                             /\ files[resp.key].remaining
                                    = Some(The(row.remaining) - 1)

\* a record with two downloads left was staged: one download is left
C25_Witness ==
    /\ resp.op = "stage"
    /\ resp.pre # None
    /\ The(resp.pre).remaining = Some(2)
    /\ resp.status = 0
    /\ files[resp.key].remaining = Some(1)
    /\ hist[resp.key].reads = 1

(***************************************************************************)
(* The claims about the chat_id of execute and about failed harvests.      *)
(***************************************************************************)
\* C21: when require_chat_id is set and the chat_id of an execute request is
\* empty, the request is answered 403.
C21_EmptyChatIdForbidden ==
    (resp.op = "executed" /\ config.require_chat_id /\ resp.chat_id = "")
    => resp.status = 403

\* C24: when an execute call fails or is cancelled while it harvests the
\* files its run produced, no file of that call has a record in the index.
C24_FailedHarvestLeavesNoRecord ==
    (resp.op = "executed" /\ resp.detail \in HarvestExceptions)
    => \A path \in DOMAIN resp.files :
          <<resp.chat_id, resp.files[path], basename(path)>> \notin DOMAIN files

(***************************************************************************)
(* The claims about cancelled and failed attempts of execute.              *)
(***************************************************************************)
\* C22: an execute request cancelled at an await after it leased a pod
\* (while it stages, posts or harvests) has the delete of that pod issued.
C22_CancelledLeaseDeleted ==
    \A c \in Calls :
        (calls[c].pc = "cancelled" /\ calls[c].failed_at \in InScope)
           => (calls[c].pod # 0 /\ calls[c].pod \in deleted)

\* a request cancelled while the pod runs its code: the pod it leased has
\* its delete issued
C22_Witness ==
    \E c \in Calls :
        /\ calls[c].pc = "cancelled"
        /\ calls[c].failed_at = "posting"
        /\ leases[calls[c].pod] = 1
        /\ calls[c].pod \in deleted

\* C27: an execute request that failed because its pod could not be
\* spawned was attempted StopAfterAttempt times.
C27_SpawnFailureRetried ==
    \A c \in Calls :
        (calls[c].pc = "raised" /\ calls[c].failed_at = "spawning")
           => calls[c].attempt = StopAfterAttempt

C29_SpawnAttemptsBounded ==
    /\ \A t \in Spawners :
          /\ spawns.tasks[t].attempt <= StopAfterAttempt
          /\ Cardinality(spawns.tasks[t].made) <= StopAfterAttempt
          /\ spawns.tasks[t].exception = "RetryError"
                => /\ spawns.tasks[t].attempt = StopAfterAttempt
                   /\ spawns.tasks[t].pc \in {"failed", "logged", "raised"}
          /\ spawns.tasks[t].pc = "logged"
                => spawns.tasks[t].exception \in {"RetryError", "Exception"}
    /\ spawns.logged = Cardinality({t \in Spawners : spawns.tasks[t].pc = "logged"})
    /\ Cardinality(FillAwaited) <= spawn_tasks
    /\ executor_pod_queue_spawning_count = spawn_tasks

\* a call made by a fill task has failed three times, after three creates:
\* it is logged, and the fill task awaits nothing more
C29_Witness ==
    \E t \in Spawners :
        /\ spawns.tasks[t].owner = "fill"
        /\ spawns.tasks[t].pc = "logged"
        /\ spawns.tasks[t].exception = "RetryError"
        /\ Cardinality(spawns.tasks[t].made) = StopAfterAttempt
        /\ spawns.logged = 1
        /\ spawn_tasks = 0

\* C30: an attempt of spawn_executor_pod whose create or wait failed has
\* raised only after kubectl delete was called for the name of that
\* attempt, and it has raised whether that delete went well or not: while
\* the delete is awaited the attempt has not raised, and once it has
\* raised the name is among the deleted ones.
C30_FailedAttemptDeletesItsPod ==
    \A t \in Spawners :
        /\ \A r \in spawns.tasks[t].reported : r[1] \in spawns.tasks[t].removed
        /\ spawns.tasks[t].pc = "deleting"
              => /\ spawn_name(t) \in spawns.tasks[t].removed
                 /\ \A r \in spawns.tasks[t].reported : r[1] # spawn_name(t)
        /\ (spawns.tasks[t].step # "" /\ spawns.tasks[t].pc # "deleting")
              => \E r \in spawns.tasks[t].reported : r[1] = spawn_name(t)

\* the create of a first attempt failed and so did the delete of its pod:
\* the attempt has raised, and the call waits for its second attempt
C30_Witness ==
    \E t \in Spawners :
        /\ spawns.tasks[t].pc = "backoff"
        /\ spawns.tasks[t].step = "create"
        /\ <<<<t, 1>>, FALSE>> \in spawns.tasks[t].reported
        /\ <<t, 1>> \in spawns.tasks[t].removed

(***************************************************************************)
(* The claim about the order of the requests of one attempt of execute.    *)
(***************************************************************************)
\* C26: within one attempt of execute, POST /execute is sent only after
\* the PUT of every input file was answered, a GET of a changed file is
\* sent only after POST /execute was answered, and once the delete task of
\* the pod is created no request is sent to the pod any more; an attempt
\* that returns has sent the GET of every file it collects before.
C26_StagePostHarvestDelete ==
    LET log == exchange.log
    IN  /\ \A j \in 1..Len(log) :
              /\ log[j].e = "POST"
                    => \A f \in exchange.inputs :
                          \E i \in 1..(j - 1) : log[i] = Event("PUT done", f)
              /\ log[j].e = "GET"
                    => \E i \in 1..(j - 1) : log[i].e = "POST returned"
              /\ log[j].e = "DELETE"
                    => \A k \in (j + 1)..Len(log) :
                          log[k].e \notin {"PUT", "POST", "GET"}
        /\ exchange.pc = "returned"
              => \A path \in exchange.to_collect :
                    \E i \in 1..Len(log) : log[i] = Event("GET", path)

\* an attempt with two input files and two changed files has returned:
\* two PUT, their answers, the POST, its answer, two GET, the delete
C26_Witness ==
    /\ exchange.pc = "returned"
    /\ exchange.inputs = Inputs
    /\ exchange.to_collect = Paths
    /\ Len(exchange.log) = 9
    /\ exchange.log[9].e = "DELETE"

(***************************************************************************)
(* The claim about the counter of spawns in flight.                        *)
(***************************************************************************)
\* C31: the counter of spawns in flight is never negative and is the number
\* of spawn tasks the fill tasks still await: a fill task adds its
\* count_to_spawn before it spawns and takes one off for every spawn that
\* ends, well or not; so the counter is 0 when no fill task awaits a spawn.
C31_SpawningCountIsSpawnsAwaited ==
    /\ executor_pod_queue_spawning_count >= 0
    /\ executor_pod_queue_spawning_count = spawn_tasks
    /\ spawn_tasks = 0 => executor_pod_queue_spawning_count = 0

\* a fill task counted two spawns after a request spawned its own pod; one
\* of the two has failed and one is awaited
C31_Witness ==
    /\ executor_pod_queue_target_length = 2
    /\ executor_pod_queue = <<>>
    /\ pods = 1
    /\ fill_tasks = 0
    /\ spawn_tasks = 1
    /\ executor_pod_queue_spawning_count = 1

(***************************************************************************)
(* The claims about the blobs of the store.                                *)
(***************************************************************************)
\* C32: when the writer scope of a harvested file is left by an exception
\* (the GET is refused, the stream breaks, the call is cancelled), no blob
\* is left in the store under the handle of that scope.
C32_FailedWriterLeavesNoBlob ==
    (resp.op = "executed" /\ resp.detail \in HarvestExceptions)
    => resp.key \notin DOMAIN blobs

\* C33: in every state reached by uploads with any max_downloads,
\* downloads, expirations and sweeps, a record's remaining is NULL or at
\* least 0.
C33_RemainingNeverNegative ==
    \A key \in DOMAIN files :
        files[key].remaining # None => The(files[key].remaining) >= 0

\* C34: every record of the index, expired or not, has its blob in the
\* store: uploads and harvests write the blob before they register, the
\* execute handler registers again only what the harvest stored, and
\* nothing removes a blob.
C34_RecordHasBlob ==
    \A key \in DOMAIN files : key \in DOMAIN blobs

\* an execute request has answered with a harvested file, registered by
\* the harvest and again by the handler: its blob is in the store
C34_Witness ==
    /\ resp.op = "executed"
    /\ resp.status = 200
    /\ \E path \in DOMAIN resp.files :
          LET key == <<resp.chat_id, resp.files[path], basename(path)>>
          IN  /\ key \in DOMAIN files
              /\ key \in DOMAIN blobs
              /\ blobs[key] = resp.wrote[path]

\* C35: no step removes a record from the index or a blob from the store,
\* or changes a blob: the registered keys and the stored blobs only grow;
\* and an expire request and a sweep leave every record as it is or set its
\* remaining to 0, its expires_at unchanged.
C35_NothingRemoved ==
    [][ /\ DOMAIN files \subseteq DOMAIN files'
        /\ \A key \in DOMAIN blobs :
              key \in DOMAIN blobs' /\ blobs'[key] = blobs[key]
        /\ resp'.op \in {"expire", "cleanup"}
              => \A key \in DOMAIN files :
                    \/ files'[key] = files[key]
                    \/ files'[key] = [files[key] EXCEPT !.remaining = Some(0)]
      ]_vars

\* a record past its expiry day was swept: it is in the index with
\* remaining 0, and its blob is in the store
C35_Witness ==
    /\ resp.op = "cleanup"
    /\ \E key \in DOMAIN files :
          /\ files[key].remaining = Some(0)
          /\ files[key].expires_at # None
          /\ TextBefore(The(files[key].expires_at), now)
          /\ hist[key].all = 0
          /\ ~ hist[key].expired
          /\ key \in DOMAIN blobs

(***************************************************************************)
(* The claims about what the normalisation leaves alone.                   *)
(***************************************************************************)
\* C37: the normalisation of an execute request's payload rewrites the
\* names of the request's fields only: the environment variable names and
\* the workspace paths (the keys of env and of files) of the request the
\* pipeline is called with are the ones the client sent.
C37_EnvNamesAndPathsUnchanged ==
    [][ passes = 0 =>
          /\ DictKeys(model_validate(payload', <<"e", "n", "v">>))
                = DictKeys(model_validate(payload, <<"e", "n", "v">>))
          /\ DictKeys(model_validate(payload', <<"f", "i", "l", "e", "s">>))
                = DictKeys(model_validate(payload, <<"f", "i", "l", "e", "s">>))
      ]_vars

(***************************************************************************)
(* The claims about rejected requests.                                     *)
(***************************************************************************)
\* C40: a request the origin guard rejects with 403 has no side effect: the
\* step that answers an upload or an execute request 403 leaves the store,
\* the index, the queue, the leases, the pods, the spawn and fill tasks and
\* the spawning count as they were, and the rejected request takes no
\* further step.
C40_RejectedRequestChangesNothing ==
    [][ /\ ( \/ resp'.op = "upload" /\ resp'.status = 403
             \/ \E c \in Calls : calls[c].pc = "idle" /\ calls'[c].pc = "rejected" )
          => UNCHANGED <<files, blobs, allocated, pending, reg,
                         executor_pod_queue, executor_pod_queue_spawning_count,
                         fill_tasks, spawn_tasks, pods, deleted, leases,
                         spawns, exchange>>
        /\ \A c \in Calls : calls[c].pc = "rejected" => calls'[c] = calls[c]
      ]_vars

\* both endpoints have rejected a request: the upload carried data, and the
\* execute request stopped at the guard with nothing leased, spawned,
\* scheduled, written or registered
C40_Witness ==
    /\ resp.status = 403
    /\ resp.op = "upload"
    /\ resp.sent # <<>>
    /\ \E c \in Calls : calls[c].pc = "rejected"
    /\ blobs = <<>> /\ files = <<>>
    /\ pods = 0 /\ fill_tasks = 0 /\ spawn_tasks = 0

(***************************************************************************)
(* The claims about the inputs of a retried execute request.               *)
(***************************************************************************)
\* C38: one execute request consumes at most one download unit of each
\* input handle it stages, whatever failures and retries of execute occur
\* while it is served: with one request served, a handle with a download
\* limit is at most one unit below the limit it was uploaded with.
C38_RequestConsumesOneUnit ==
    \A key \in DOMAIN files :
        files[key].remaining # None
            => /\ hist[key].reads <= 1
               /\ The(files[key].remaining) >= RequestedLimit(key) - 1

(***************************************************************************)
(* The claims about the pods of cancelled spawns.                          *)
(***************************************************************************)
\* C39: every pod the service creates ends in the queue, leased to an
\* execute call, or with a delete issued for it, also when the spawn or the
\* fill task that started it is cancelled: a pod that was created and has
\* no delete issued is the pod of the running attempt of its call, which is
\* waited for, or is returned to the fill task or the execute call that
\* awaits it, or was appended to the queue or leased.
C39_CreatedPodQueuedLeasedOrDeleted ==
    \A t \in Spawners :
        \A name \in spawns.tasks[t].made \ spawns.tasks[t].removed :
            /\ name = spawn_name(t)
            /\ \/ spawns.tasks[t].pc \in {"wait", "appended", "leased"}
               \/ /\ spawns.tasks[t].pc = "returned"
                  /\ spawns.tasks[t].owner \in {"fill", "lease"}

(***************************************************************************)
(* The claims about the reaper.                                            *)
(***************************************************************************)
\* C36: the reaper keeps running: again and again a call of
\* cleanup_expired_files is due and is made, each after a sleep of the
\* fixed interval, and after a cycle in which the call raised the next
\* call becomes due all the same.
C36_ReaperKeepsRunning ==
    /\ []<>(reaper.pc = "cleanup")
    /\ []<>(reaper.pc = "sleep")
    /\ reaper.raised ~> (reaper.pc = "cleanup")

\* two calls were made, the last one raised, and the next call is due
C36_Witness ==
    /\ reaper.cycles = 2
    /\ reaper.raised
    /\ reaper.pc = "cleanup"
    /\ resp.op = "cleanup" /\ resp.detail = "OperationalError"

====
